---- MODULE Spec2Model ----
(***************************************************************************)
(* Block document model of react-block-weaver-editor.                      *)
(*                                                                         *)
(* State and handlers of NotionEditor (src/components/NotionEditor.tsx)    *)
(* and of NotionEditorFormIntegrated, and of the page editor with the      *)
(* calendar (unnamed/part_000), one action per handler.  JavaScript        *)
(* array indices are kept 0-based as in the source; At(s, i) reads index i.*)
(* An optional field is None (undefined / absent) or Some(v).              *)
(***************************************************************************)
EXTENDS Integers, Sequences, FiniteSets, TLC

VARIABLES
  content,        \* Block[]: the document (useState, NotionEditor.tsx:65)
  now,            \* the reading Date.now() gives at this instant
  showBlockMenu,  \* id of the block whose "+" menu is open, or Null
  showSlashMenu,  \* blockId of the slash menu, or Null
  showTypeMenu,   \* id of the block whose type menu is open, or Null
  dragItem,       \* useRef: index recorded by onDragStart, or NoIndex
  dragOverItem,   \* useRef: index recorded by onDragEnter, or NoIndex
  crashed,        \* a render has thrown (an undefined element was read)
  initialContent, \* the host's initialContent prop (form-integrated editor)
  deletedIds,     \* history: ids of the blocks removed from the document
  lastOp,         \* history: the handler that ran last, with its arguments
  showFormatMenu, \* the text format menu is open (NotionEditor.tsx:72)
  isImageModalOpen, \* id of the block the image modal is open for, or Null
  onChange,       \* the host passed a change callback (form-integrated editor)
  reported,       \* the sequence the host's callback received last, or None
  seedPending,    \* the effect on [initialContent] has yet to run
  blocks,         \* Block[]: the page editor's document (part_000:48)
  activeBlockId,  \* the page editor's active block (part_000:51)
  slashOpen,      \* the page editor's showSlashMenu flag (part_000:53)
  events,         \* CalendarEvent[]: the page editor's events (part_000:56)
  selectedBlockId, \* the block the format menu remembers (NotionEditor.tsx:74)
  draft,          \* the text-edit surface that differs from the store, or None
  pendingReads,   \* block ids of the image file reads that have not resolved
  modals,         \* per calendar block: its CalendarView's modal state
  timers          \* the deferred focus callbacks that have not fired

menuVars  == <<showBlockMenu, showSlashMenu, showTypeMenu>>
dragVars  == <<dragItem, dragOverItem>>
overlayVars == <<showFormatMenu, isImageModalOpen>>
hostVars  == <<onChange, reported, seedPending>>
pageVars  == <<blocks, activeBlockId, slashOpen, events>>
sessionVars == <<selectedBlockId, draft, pendingReads, modals>>
extVars   == <<overlayVars, hostVars, pageVars, sessionVars>>
vars == <<content, now, showBlockMenu, showSlashMenu, showTypeMenu,
          dragItem, dragOverItem, crashed, initialContent, deletedIds,
          showFormatMenu, isImageModalOpen, onChange, reported, seedPending,
          blocks, activeBlockId, slashOpen, events, selectedBlockId, draft,
          pendingReads, modals, timers, lastOp>>

---------------------------------------------------------------------------
(* Bounds of the model *)

\* longest document the handlers are explored on
MaxBlocks == 3
\* last clock reading; readings are InitialBlockId+1 .. MaxClock
MaxClock == 3
\* largest table the grid editors are explored on
MaxRows == 3
MaxCols == 3
\* most data points the chart editors are explored on
MaxPoints == 4

---------------------------------------------------------------------------
(* Values *)

None == <<>>
Some(v) == <<v>>

\* null / undefined for an id-valued state or argument; block ids are >= 1
Null == 0
\* null for a drag ref; indices are >= 0
NoIndex == -1
\* the id of the block the editor starts with ('block-1')
InitialBlockId == 1

\* `block-${Date.now()}`: the id is the clock reading behind a fixed prefix
BlockId(t) == t

Ids == InitialBlockId..MaxClock

DefaultTable == [headers |-> <<"Column 1", "Column 2">>,
                 rows |-> << <<"", "">>, <<"", "">> >>]
DefaultChart == [labels |-> <<"A", "B", "C">>, values |-> <<10, 20, 30>>]

\* the block the editor starts with (its text without the quotes around /)
WelcomeBlock ==
  [id |-> InitialBlockId, type |-> "paragraph",
   content |-> "Welcome to your editor! Type / for commands.",
   alignment |-> "left", checked |-> None, collapsed |-> None,
   children |-> None, tableData |-> None, chartData |-> None,
   toggleTitle |-> None, toggleContent |-> None, selectedDate |-> None]

\* what a read of a missing array element yields
UndefinedItem ==
  [id |-> Null, type |-> "undefined", content |-> "",
   alignment |-> "", checked |-> None, collapsed |-> None,
   children |-> None, tableData |-> None, chartData |-> None,
   toggleTitle |-> None, toggleContent |-> None, selectedDate |-> None]

\* newBlock of addBlock
NewBlock(type, t) ==
  [id |-> BlockId(t), type |-> type, content |-> "", alignment |-> "left",
   checked |-> IF type = "todo" THEN Some(FALSE) ELSE None,
   collapsed |-> IF type = "toggle" THEN Some(FALSE) ELSE None,
   children |-> IF type = "toggle" THEN Some(<<>>) ELSE None,
   tableData |-> IF type = "table" THEN Some(DefaultTable) ELSE None,
   chartData |-> IF type \in {"chart-bar", "chart-pie"}
                 THEN Some(DefaultChart) ELSE None,
   toggleTitle |-> IF type = "toggle" THEN Some("") ELSE None,
   toggleContent |-> IF type = "toggle" THEN Some("") ELSE None,
   selectedDate |-> IF type = "calendar" THEN Some(t) ELSE None]

---------------------------------------------------------------------------
(* JavaScript array operations *)

At(s, i) == s[i + 1]

Min(a, b) == IF a < b THEN a ELSE b

\* Array.prototype.findIndex(b => b.id === id): first match, -1 if none
FindIndex(s, id) ==
  IF \E i \in 1..Len(s) : s[i].id = id
  THEN (CHOOSE i \in 1..Len(s) :
          s[i].id = id /\ \A j \in 1..(i - 1) : s[j].id # id) - 1
  ELSE -1

\* Array.prototype.find(b => b.id === id); HasBlock tells whether it is defined
HasBlock(s, id) == FindIndex(s, id) # -1
Find(s, id) == At(s, FindIndex(s, id))

\* Array.prototype.splice(start, deleteCount, ...items) for start >= 0:
\* the array afterwards, and the removed elements
SpliceStart(s, start) == Min(start, Len(s))
SpliceCount(s, start, deleteCount) ==
  Min(deleteCount, Len(s) - SpliceStart(s, start))
Splice(s, start, deleteCount, items) ==
  SubSeq(s, 1, SpliceStart(s, start)) \o items \o
  SubSeq(s, SpliceStart(s, start) + SpliceCount(s, start, deleteCount) + 1,
         Len(s))
Spliced(s, start, deleteCount) ==
  SubSeq(s, SpliceStart(s, start) + 1,
         SpliceStart(s, start) + SpliceCount(s, start, deleteCount))

\* Array.prototype.filter(b => b.id !== id)
RECURSIVE FilterOutId(_, _)
FilterOutId(s, id) ==
  IF s = <<>> THEN <<>>
  ELSE IF Head(s).id = id THEN FilterOutId(Tail(s), id)
       ELSE <<Head(s)>> \o FilterOutId(Tail(s), id)

\* Array.prototype.filter((_, i) => i !== index)
FilterOutIndex(s, index) ==
  IF index >= 0 /\ index < Len(s)
  THEN SubSeq(s, 1, index) \o SubSeq(s, index + 2, Len(s))
  ELSE s

\* (mutant) the spread the wrong way round, { ...updates, ...block }
MergeBlockWins(block, updates) == block

\* { ...block, ...updates }
Merge(block, updates) ==
  LET Pick(f) == IF f \in DOMAIN updates THEN updates[f] ELSE block[f]
  IN [id |-> Pick("id"), type |-> Pick("type"), content |-> Pick("content"),
      alignment |-> Pick("alignment"), checked |-> Pick("checked"),
      collapsed |-> Pick("collapsed"), children |-> Pick("children"),
      tableData |-> Pick("tableData"), chartData |-> Pick("chartData"),
      toggleTitle |-> Pick("toggleTitle"),
      toggleContent |-> Pick("toggleContent"),
      selectedDate |-> Pick("selectedDate")]

---------------------------------------------------------------------------
(* Block store: the pure part of each handler *)

\* addBlock's setContent updater
AddBlockContent(c, newBlock, afterId) ==
  IF afterId # Null
  THEN Splice(c, FindIndex(c, afterId) + 1, 0, <<newBlock>>)
  ELSE Append(c, newBlock)

\* (mutant) deleteBlock without its one-block floor
DeleteBlockContentNoFloor(c, id) == FilterOutId(c, id)

\* (mutant) deleteBlock by splice(findIndex(id), 1): a miss removes the last
DeleteBlockContentSplice(c, id) ==
  IF Len(c) > 1
  THEN IF HasBlock(c, id) THEN FilterOutId(c, id)
       ELSE SubSeq(c, 1, Len(c) - 1)
  ELSE c

\* deleteBlock's new content
DeleteBlockContent(c, id) ==
  IF Len(c) > 1 THEN FilterOutId(c, id) ELSE c

\* updateBlock's setContent updater
RECURSIVE UpdateBlockContent(_, _, _)
UpdateBlockContent(c, id, updates) ==
  IF c = <<>> THEN <<>>
  ELSE <<IF Head(c).id = id THEN Merge(Head(c), updates) ELSE Head(c)>>
       \o UpdateBlockContent(Tail(c), id, updates)

\* (mutant) changeBlockType that carries a chart's data over to a chart type
ChangeTypeUpdatesKeepChart(block, newType) ==
  [type |-> newType,
   checked |-> IF newType = "todo" THEN Some(FALSE) ELSE None,
   collapsed |-> IF newType = "toggle" THEN Some(FALSE) ELSE None,
   children |-> IF newType = "toggle" THEN Some(<<>>) ELSE None,
   tableData |-> IF newType = "table" THEN Some(DefaultTable) ELSE None,
   chartData |-> IF newType \in {"chart-bar", "chart-pie"}
                 THEN (IF block.chartData # None THEN block.chartData
                       ELSE Some(DefaultChart))
                 ELSE None,
   toggleTitle |-> IF newType = "toggle" THEN Some(block.content) ELSE None,
   toggleContent |-> IF newType = "toggle" THEN Some("") ELSE None,
   content |-> IF newType # "toggle" THEN block.content ELSE ""]

\* the updates changeBlockType builds for a block and a target type
ChangeTypeUpdates(block, newType) ==
  [type |-> newType,
   checked |-> IF newType = "todo" THEN Some(FALSE) ELSE None,
   collapsed |-> IF newType = "toggle" THEN Some(FALSE) ELSE None,
   children |-> IF newType = "toggle" THEN Some(<<>>) ELSE None,
   tableData |-> IF newType = "table" THEN Some(DefaultTable) ELSE None,
   chartData |-> IF newType \in {"chart-bar", "chart-pie"}
                 THEN Some(DefaultChart) ELSE None,
   toggleTitle |-> IF newType = "toggle" THEN Some(block.content) ELSE None,
   toggleContent |-> IF newType = "toggle" THEN Some("") ELSE None,
   content |-> IF newType # "toggle" THEN block.content ELSE ""]

\* the ids a document holds
IdsOf(c) == {c[i].id : i \in 1..Len(c)}

\* setTimeout(() => { querySelector(`[data-block-id="${id}"] ...`)?.focus() }, 0)
\* of the block editors ("editor") and of the page editor ("page"): the
\* callback that is pending; callbacks for one id act alike
FocusTimer(owner, id) == [owner |-> owner, id |-> id]

Op(name, id, arg) == [op |-> name, id |-> id, arg |-> arg]

---------------------------------------------------------------------------
(* Block store: handlers of NotionEditor *)

\* time passes: the next Date.now() reads one millisecond later
Tick ==
  /\ ~crashed
  /\ now < MaxClock
  /\ now' = now + 1
  /\ lastOp' = Op("tick", Null, "")
  /\ UNCHANGED timers
  /\ UNCHANGED extVars
  /\ UNCHANGED <<content, menuVars, dragVars, crashed, initialContent,
                 deletedIds>>

AddBlock(type, afterId) ==
  /\ ~crashed
  /\ Len(content) < MaxBlocks
  /\ content' = AddBlockContent(content, NewBlock(type, now), afterId)
  /\ showBlockMenu' = Null
  /\ showSlashMenu' = Null
  /\ timers' = timers \cup {FocusTimer("editor", BlockId(now))}
  /\ lastOp' = Op("addBlock", afterId, type)
  /\ UNCHANGED extVars
  /\ UNCHANGED <<now, showTypeMenu, dragVars, crashed, initialContent,
                 deletedIds>>

UpdateBlock(id, updates) ==
  /\ ~crashed
  /\ content' = UpdateBlockContent(content, id, updates)
  /\ lastOp' = Op("updateBlock", id, updates)
  /\ UNCHANGED timers
  /\ UNCHANGED extVars
  /\ UNCHANGED <<now, menuVars, dragVars, crashed, initialContent,
                 deletedIds>>

ChangeBlockType(id, newType) ==
  /\ ~crashed
  /\ IF HasBlock(content, id)
     THEN /\ content' = UpdateBlockContent(
                          content, id,
                          ChangeTypeUpdates(Find(content, id), newType))
          /\ showTypeMenu' = Null
     ELSE UNCHANGED <<content, showTypeMenu>>
  /\ lastOp' = Op("changeBlockType", id, newType)
  /\ UNCHANGED timers
  /\ UNCHANGED extVars
  /\ UNCHANGED <<now, showBlockMenu, showSlashMenu, dragVars, crashed,
                 initialContent, deletedIds>>

DeleteBlock(id) ==
  /\ ~crashed
  /\ content' = DeleteBlockContent(content, id)
  /\ deletedIds' = deletedIds \cup (IdsOf(content) \ IdsOf(content'))
  /\ showBlockMenu' = Null
  /\ lastOp' = Op("deleteBlock", id, "")
  /\ UNCHANGED timers
  /\ UNCHANGED extVars
  /\ UNCHANGED <<now, showSlashMenu, showTypeMenu, dragVars, crashed,
                 initialContent>>

---------------------------------------------------------------------------
(* Drag and drop: handlers of NotionEditor *)

\* the element handleDragSort takes out: splice(dragItem, 1)[0], which is
\* undefined when the index is past the end
DraggedItem(c, from) ==
  IF Spliced(c, from, 1) = <<>> THEN UndefinedItem ELSE Spliced(c, from, 1)[1]

\* handleDragSort's _content after its two splices
DragSortContent(c, from, to) ==
  Splice(Splice(c, from, 1, <<>>), to, 0, <<DraggedItem(c, from)>>)

\* onDragStart of the block rendered at index
DragStart(index) ==
  /\ ~crashed
  /\ index \in 0..(Len(content) - 1)
  /\ dragItem' = index
  /\ lastOp' = Op("dragStart", Null, index)
  /\ UNCHANGED timers
  /\ UNCHANGED extVars
  /\ UNCHANGED <<content, now, menuVars, dragOverItem, crashed,
                 initialContent, deletedIds>>

\* onDragEnter of the block rendered at index
DragEnter(index) ==
  /\ ~crashed
  /\ index \in 0..(Len(content) - 1)
  /\ dragOverItem' = index
  /\ lastOp' = Op("dragEnter", Null, index)
  /\ UNCHANGED timers
  /\ UNCHANGED extVars
  /\ UNCHANGED <<content, now, menuVars, dragItem, crashed,
                 initialContent, deletedIds>>

\* onDragEnd: handleDragSort; rendering an undefined element throws
DragEnd ==
  /\ ~crashed
  /\ IF dragItem = NoIndex \/ dragOverItem = NoIndex
     THEN UNCHANGED <<content, dragVars, crashed>>
     ELSE /\ content' = DragSortContent(content, dragItem, dragOverItem)
          /\ dragItem' = NoIndex
          /\ dragOverItem' = NoIndex
          /\ crashed' = (DraggedItem(content, dragItem) = UndefinedItem)
  /\ lastOp' = Op("dragEnd", Null, "")
  /\ UNCHANGED timers
  /\ UNCHANGED extVars
  /\ UNCHANGED <<now, menuVars, initialContent, deletedIds>>

---------------------------------------------------------------------------
(* Table grid: handlers of NotionEditor *)

\* block && block.tableData, for block = content.find(b => b.id === blockId)
HasTable(c, id) == HasBlock(c, id) /\ Find(c, id).tableData # None
TableOf(c, id) == Find(c, id).tableData[1]

\* new Array(n).fill('')
EmptyRow(n) == [i \in 1..n |-> ""]

\* `Column ${n}`
ColumnName(n) == "Column " \o ToString(n)

\* (mutant) addTableColumn that leaves the rows as they are
AddTableColumnDataKeepRows(td) ==
  [headers |-> Append(td.headers, ColumnName(Len(td.headers) + 1)),
   rows |-> td.rows]

\* newTableData of addTableRow
AddTableRowData(td) ==
  [headers |-> td.headers,
   rows |-> Append(td.rows, EmptyRow(Len(td.headers)))]

\* newTableData of addTableColumn
AddTableColumnData(td) ==
  [headers |-> Append(td.headers, ColumnName(Len(td.headers) + 1)),
   rows |-> [r \in 1..Len(td.rows) |-> Append(td.rows[r], "")]]

\* newTableData of removeTableRow
RemoveTableRowData(td, rowIndex) ==
  [headers |-> td.headers, rows |-> FilterOutIndex(td.rows, rowIndex)]

\* newTableData of removeTableColumn
RemoveTableColumnData(td, colIndex) ==
  [headers |-> FilterOutIndex(td.headers, colIndex),
   rows |-> [r \in 1..Len(td.rows) |-> FilterOutIndex(td.rows[r], colIndex)]]

\* newTableData of a header input's onChange
SetHeaderData(td, index, text) ==
  [headers |-> [td.headers EXCEPT ![index + 1] = text], rows |-> td.rows]

\* newTableData of a cell input's onChange
SetCellData(td, rowIndex, cellIndex, text) ==
  [headers |-> td.headers,
   rows |-> [td.rows EXCEPT ![rowIndex + 1][cellIndex + 1] = text]]

\* what every grid handler leaves alone
GridFrame ==
  UNCHANGED <<now, menuVars, dragVars, crashed, initialContent, deletedIds>>

AddTableRow(blockId) ==
  /\ ~crashed
  /\ IF HasTable(content, blockId)
     THEN /\ Len(TableOf(content, blockId).rows) < MaxRows
          /\ content' = UpdateBlockContent(
               content, blockId,
               [tableData |-> Some(AddTableRowData(TableOf(content, blockId)))])
     ELSE UNCHANGED content
  /\ lastOp' = Op("addTableRow", blockId, "")
  /\ UNCHANGED timers
  /\ UNCHANGED extVars
  /\ GridFrame

AddTableColumn(blockId) ==
  /\ ~crashed
  /\ IF HasTable(content, blockId)
     THEN /\ Len(TableOf(content, blockId).headers) < MaxCols
          /\ content' = UpdateBlockContent(
               content, blockId,
               [tableData |->
                  Some(AddTableColumnData(TableOf(content, blockId)))])
     ELSE UNCHANGED content
  /\ lastOp' = Op("addTableColumn", blockId, "")
  /\ UNCHANGED timers
  /\ UNCHANGED extVars
  /\ GridFrame

RemoveTableRow(blockId, rowIndex) ==
  /\ ~crashed
  /\ IF HasTable(content, blockId) /\ Len(TableOf(content, blockId).rows) > 1
     THEN content' = UpdateBlockContent(
            content, blockId,
            [tableData |->
               Some(RemoveTableRowData(TableOf(content, blockId), rowIndex))])
     ELSE UNCHANGED content
  /\ lastOp' = Op("removeTableRow", blockId, "")
  /\ UNCHANGED timers
  /\ UNCHANGED extVars
  /\ GridFrame

RemoveTableColumn(blockId, colIndex) ==
  /\ ~crashed
  /\ IF /\ HasTable(content, blockId)
        /\ Len(TableOf(content, blockId).headers) > 1
     THEN content' = UpdateBlockContent(
            content, blockId,
            [tableData |->
               Some(RemoveTableColumnData(TableOf(content, blockId),
                                          colIndex))])
     ELSE UNCHANGED content
  /\ lastOp' = Op("removeTableColumn", blockId, "")
  /\ UNCHANGED timers
  /\ UNCHANGED extVars
  /\ GridFrame

\* onChange of the header input at index of the table rendered at position
SetHeader(position, index, text) ==
  /\ ~crashed
  /\ position \in 0..(Len(content) - 1)
  /\ At(content, position).type = "table"
  /\ At(content, position).tableData # None
  /\ index \in 0..(Len(At(content, position).tableData[1].headers) - 1)
  /\ content' = UpdateBlockContent(
       content, At(content, position).id,
       [tableData |->
          Some(SetHeaderData(At(content, position).tableData[1], index,
                             text))])
  /\ lastOp' = Op("setHeader", At(content, position).id, "")
  /\ UNCHANGED timers
  /\ UNCHANGED extVars
  /\ GridFrame

\* onChange of the cell input at (rowIndex, cellIndex) of the table rendered
\* at position
SetCell(position, rowIndex, cellIndex, text) ==
  /\ ~crashed
  /\ position \in 0..(Len(content) - 1)
  /\ At(content, position).type = "table"
  /\ At(content, position).tableData # None
  /\ rowIndex \in 0..(Len(At(content, position).tableData[1].rows) - 1)
  /\ cellIndex \in
       0..(Len(At(content, position).tableData[1].rows[rowIndex + 1]) - 1)
  /\ content' = UpdateBlockContent(
       content, At(content, position).id,
       [tableData |->
          Some(SetCellData(At(content, position).tableData[1], rowIndex,
                           cellIndex, text))])
  /\ lastOp' = Op("setCell", At(content, position).id, "")
  /\ UNCHANGED timers
  /\ UNCHANGED extVars
  /\ GridFrame

---------------------------------------------------------------------------
(* Chart data: handlers of NotionEditor *)

\* block && block.chartData, for block = content.find(b => b.id === blockId)
HasChart(c, id) == HasBlock(c, id) /\ Find(c, id).chartData # None
ChartOf(c, id) == Find(c, id).chartData[1]

\* `Item ${n}`
ItemName(n) == "Item " \o ToString(n)

\* a[index] = v on a JavaScript array: an index past the end lengthens the
\* array, the elements in between reading as hole
JsSet(a, index, v, hole) ==
  [i \in 1..(IF index < Len(a) THEN Len(a) ELSE index + 1) |->
     IF i = index + 1 THEN v ELSE IF i <= Len(a) THEN a[i] ELSE hole]

\* (mutant) removeChartDataPoint that filters the labels only
RemoveChartDataPointDataLabelsOnly(cd, index) ==
  [labels |-> FilterOutIndex(cd.labels, index), values |-> cd.values]

\* newChartData of addChartDataPoint
AddChartDataPointData(cd) ==
  [labels |-> Append(cd.labels, ItemName(Len(cd.labels) + 1)),
   values |-> Append(cd.values, 0)]

\* newChartData of removeChartDataPoint
RemoveChartDataPointData(cd, index) ==
  [labels |-> FilterOutIndex(cd.labels, index),
   values |-> FilterOutIndex(cd.values, index)]

\* newChartData of a label input's onChange
SetLabelData(cd, index, text) ==
  [labels |-> JsSet(cd.labels, index, text, ""), values |-> cd.values]

\* newChartData of a value input's onChange
SetValueData(cd, index, value) ==
  [labels |-> cd.labels, values |-> JsSet(cd.values, index, value, 0)]

AddChartDataPoint(blockId) ==
  /\ ~crashed
  /\ IF HasChart(content, blockId)
     THEN /\ Len(ChartOf(content, blockId).labels) < MaxPoints
          /\ content' = UpdateBlockContent(
               content, blockId,
               [chartData |->
                  Some(AddChartDataPointData(ChartOf(content, blockId)))])
     ELSE UNCHANGED content
  /\ lastOp' = Op("addChartDataPoint", blockId, "")
  /\ UNCHANGED timers
  /\ UNCHANGED extVars
  /\ GridFrame

\* (mutant) removeChartDataPoint's guard without its one-point floor
KeepsChartPointNoFloor(c, blockId) == HasChart(c, blockId)

\* removeChartDataPoint's guard
KeepsChartPoint(c, blockId) ==
  HasChart(c, blockId) /\ Len(ChartOf(c, blockId).labels) > 1

RemoveChartDataPoint(blockId, index) ==
  /\ ~crashed
  /\ IF KeepsChartPoint(content, blockId)
     THEN content' = UpdateBlockContent(
            content, blockId,
            [chartData |->
               Some(RemoveChartDataPointData(ChartOf(content, blockId),
                                             index))])
     ELSE UNCHANGED content
  /\ lastOp' = Op("removeChartDataPoint", blockId, "")
  /\ UNCHANGED timers
  /\ UNCHANGED extVars
  /\ GridFrame

IsChartType(type) == type \in {"chart-bar", "chart-pie"}

\* onChange of the label input at index of the chart rendered at position
SetLabel(position, index, text) ==
  /\ ~crashed
  /\ position \in 0..(Len(content) - 1)
  /\ IsChartType(At(content, position).type)
  /\ At(content, position).chartData # None
  /\ index \in 0..(Len(At(content, position).chartData[1].labels) - 1)
  /\ content' = UpdateBlockContent(
       content, At(content, position).id,
       [chartData |->
          Some(SetLabelData(At(content, position).chartData[1], index,
                            text))])
  /\ lastOp' = Op("setLabel", At(content, position).id, "")
  /\ UNCHANGED timers
  /\ UNCHANGED extVars
  /\ GridFrame

\* onChange of the value input at index of the chart rendered at position
SetValue(position, index, value) ==
  /\ ~crashed
  /\ position \in 0..(Len(content) - 1)
  /\ IsChartType(At(content, position).type)
  /\ At(content, position).chartData # None
  /\ index \in 0..(Len(At(content, position).chartData[1].labels) - 1)
  /\ content' = UpdateBlockContent(
       content, At(content, position).id,
       [chartData |->
          Some(SetValueData(At(content, position).chartData[1], index,
                            value))])
  /\ lastOp' = Op("setValue", At(content, position).id, "")
  /\ UNCHANGED timers
  /\ UNCHANGED extVars
  /\ GridFrame

---------------------------------------------------------------------------
(* Todo and toggle flips, keys, the earlier changeBlockType (NotionEditor) *)

\* !block.checked, !block.collapsed: undefined and false give true
Negated(field) == Some(~(field = Some(TRUE)))

\* toggleTodo's update
ToggleTodoUpdates(block) == [checked |-> Negated(block.checked)]

\* toggleCollapse's update
ToggleCollapseUpdates(block) == [collapsed |-> Negated(block.collapsed)]

ToggleTodo(id) ==
  /\ ~crashed
  /\ content' = IF HasBlock(content, id)
                THEN UpdateBlockContent(content, id,
                                        ToggleTodoUpdates(Find(content, id)))
                ELSE content
  /\ lastOp' = Op("toggleTodo", id, "")
  /\ UNCHANGED timers
  /\ UNCHANGED extVars
  /\ UNCHANGED <<now, menuVars, dragVars, crashed, initialContent,
                 deletedIds>>

ToggleCollapse(id) ==
  /\ ~crashed
  /\ content' = IF HasBlock(content, id)
                THEN UpdateBlockContent(
                       content, id, ToggleCollapseUpdates(Find(content, id)))
                ELSE content
  /\ lastOp' = Op("toggleCollapse", id, "")
  /\ UNCHANGED timers
  /\ UNCHANGED extVars
  /\ UNCHANGED <<now, menuVars, dragVars, crashed, initialContent,
                 deletedIds>>

\* block.content.trim() === '' (the contents explored hold no white space)
IsBlank(text) == text = ""

IsListType(type) == type \in {"list", "numbered-list"}

\* the blocks whose editable text binds onKeyDown to handleSlashCommand
HasKeyHandler(type) ==
  type \notin {"image", "divider", "callout", "table", "chart-bar",
               "chart-pie", "calendar", "file", "video", "audio", "bookmark"}

\* handleSlashCommand on a key down ("/", "Escape", or "Enter" without shift)
\* in the block blockId
HandleSlashCommand(key, blockId) ==
  /\ ~crashed
  /\ lastOp' = Op("keyDown", blockId, key)
  /\ UNCHANGED extVars
  /\ UNCHANGED <<now, showTypeMenu, dragVars, crashed, initialContent,
                 deletedIds>>
  /\ IF ~HasBlock(content, blockId)
     THEN UNCHANGED <<content, showBlockMenu, showSlashMenu, timers>>
     ELSE LET block == Find(content, blockId)
          IN CASE key = "/" ->
                    /\ showSlashMenu' = IF block.content \in {"", "/"}
                                        THEN blockId ELSE showSlashMenu
                    /\ UNCHANGED <<content, showBlockMenu, timers>>
               [] key = "Escape" ->
                    /\ showSlashMenu' = Null
                    /\ UNCHANGED <<content, showBlockMenu, timers>>
               [] key = "Enter" /\ IsListType(block.type)
                                /\ IsBlank(block.content) ->
                    /\ content' = UpdateBlockContent(content, blockId,
                                                     [type |-> "paragraph"])
                    /\ UNCHANGED <<showBlockMenu, showSlashMenu, timers>>
               [] key = "Enter" /\ (IsListType(block.type)
                                    \/ IsBlank(block.content))
                                /\ ~(IsListType(block.type)
                                     /\ IsBlank(block.content)) ->
                    /\ Len(content) < MaxBlocks
                    /\ content' = AddBlockContent(
                         content,
                         NewBlock(IF IsListType(block.type) THEN block.type
                                  ELSE "paragraph", now),
                         blockId)
                    /\ showBlockMenu' = Null
                    /\ showSlashMenu' = Null
                    /\ timers' = timers \cup
                                   {FocusTimer("editor", BlockId(now))}
               [] OTHER ->
                    UNCHANGED <<content, showBlockMenu, showSlashMenu,
                                timers>>

\* the updates the earlier changeBlockType (second half of the file) builds
ChangeTypeUpdatesSecond(block, newType) ==
  [type |-> newType,
   checked |-> IF newType = "todo" THEN Some(FALSE) ELSE None,
   collapsed |-> IF newType = "toggle" THEN Some(FALSE) ELSE None,
   children |-> IF newType = "toggle" THEN Some(<<>>) ELSE None,
   tableData |-> IF newType = "table" THEN Some(DefaultTable) ELSE None,
   chartData |-> IF newType \in {"chart-bar", "chart-pie"}
                 THEN Some(DefaultChart) ELSE None]

\* the earlier changeBlockType
ChangeBlockTypeSecond(id, newType) ==
  /\ ~crashed
  /\ IF HasBlock(content, id)
     THEN /\ content' = UpdateBlockContent(
                          content, id,
                          ChangeTypeUpdatesSecond(Find(content, id), newType))
          /\ showTypeMenu' = Null
     ELSE UNCHANGED <<content, showTypeMenu>>
  /\ lastOp' = Op("changeBlockType", id, newType)
  /\ UNCHANGED timers
  /\ UNCHANGED extVars
  /\ UNCHANGED <<now, showBlockMenu, showSlashMenu, dragVars, crashed,
                 initialContent, deletedIds>>

---------------------------------------------------------------------------
(* Overlays of NotionEditor: menus, format menu, image modal *)

\* the blocks that render the drag handle, the type menu and the "+" menu
HasControls(block) == block.type # "divider"

\* menuRef.current and typeMenuRef.current are set while a block renders
\* its controls
ControlsRendered == \E i \in 1..Len(content) : HasControls(content[i])

\* the blocks whose editable text binds onMouseUp to handleTextSelection
HasSelectionHandler(type) ==
  type \notin {"image", "divider", "table", "chart-bar", "chart-pie",
               "calendar", "file", "video", "audio", "bookmark"}

\* (mutant) handleClickOutside that leaves the slash menu open
HandleClickOutsideKeepsSlash ==
  /\ ~crashed
  /\ showBlockMenu' = IF ControlsRendered THEN Null ELSE showBlockMenu
  /\ showSlashMenu' = showSlashMenu
  /\ showFormatMenu' = FALSE
  /\ showTypeMenu' = IF ControlsRendered THEN Null ELSE showTypeMenu
  /\ lastOp' = Op("pointerDownOutside", showSlashMenu, "")
  /\ UNCHANGED sessionVars
  /\ UNCHANGED timers
  /\ UNCHANGED <<content, now, dragVars, crashed, initialContent,
                 deletedIds, isImageModalOpen, hostVars, pageVars>>

\* handleClickOutside on a mousedown whose target lies in none of the regions
\* the four refs hold; slashMenuRef and formatMenuRef are set while their
\* menu is rendered.  The history keeps the block of the slash menu it met.
HandleClickOutside ==
  /\ ~crashed
  /\ showBlockMenu' = IF ControlsRendered THEN Null ELSE showBlockMenu
  /\ showSlashMenu' = Null
  /\ showFormatMenu' = FALSE
  /\ showTypeMenu' = IF ControlsRendered THEN Null ELSE showTypeMenu
  /\ lastOp' = Op("pointerDownOutside", showSlashMenu, "")
  /\ UNCHANGED sessionVars
  /\ UNCHANGED timers
  /\ UNCHANGED <<content, now, dragVars, crashed, initialContent,
                 deletedIds, isImageModalOpen, hostVars, pageVars>>

\* the type button of a block: setShowTypeMenu(open on it ? null : its id)
ToggleTypeMenu(id) ==
  /\ ~crashed
  /\ showTypeMenu' = IF showTypeMenu = id THEN Null ELSE id
  /\ lastOp' = Op("toggleTypeMenu", id, "")
  /\ UNCHANGED timers
  /\ UNCHANGED <<content, now, showBlockMenu, showSlashMenu, dragVars,
                 crashed, initialContent, deletedIds, extVars>>

\* handleTextSelection once its timer has run: selected tells whether the
\* selection is not collapsed and has a width
HandleTextSelection(blockId, selected) ==
  /\ ~crashed
  /\ showFormatMenu' = selected
  /\ selectedBlockId' = IF selected THEN blockId ELSE selectedBlockId
  /\ lastOp' = Op("textSelection", blockId, selected)
  /\ UNCHANGED <<draft, pendingReads, modals>>
  /\ UNCHANGED timers
  /\ UNCHANGED <<content, now, menuVars, dragVars, crashed, initialContent,
                 deletedIds, isImageModalOpen, hostVars, pageVars>>

\* a click on an image block: setIsImageModalOpen(block.id)
OpenImageModal(id) ==
  /\ ~crashed
  /\ isImageModalOpen' = id
  /\ lastOp' = Op("openImageModal", id, "")
  /\ UNCHANGED sessionVars
  /\ UNCHANGED timers
  /\ UNCHANGED <<content, now, menuVars, dragVars, crashed, initialContent,
                 deletedIds, showFormatMenu, hostVars, pageVars>>

\* the modal's close button: setIsImageModalOpen(null)
CloseImageModal ==
  /\ ~crashed
  /\ isImageModalOpen' = Null
  /\ lastOp' = Op("closeImageModal", Null, "")
  /\ UNCHANGED sessionVars
  /\ UNCHANGED timers
  /\ UNCHANGED <<content, now, menuVars, dragVars, crashed, initialContent,
                 deletedIds, showFormatMenu, hostVars, pageVars>>

\* the overlays that are open
OpenOverlays ==
  {m \in {"block", "slash", "type", "format", "image"} :
     \/ m = "block" /\ showBlockMenu # Null
     \/ m = "slash" /\ showSlashMenu # Null
     \/ m = "type" /\ showTypeMenu # Null
     \/ m = "format" /\ showFormatMenu
     \/ m = "image" /\ isImageModalOpen # Null}

\* all overlays closed, as the editor mounts
OverlayInit ==
  /\ showFormatMenu = FALSE
  /\ isImageModalOpen = Null

\* the modal state a CalendarView mounts with (CalendarView.tsx:36-38)
ClosedModal ==
  [showEventModal |-> FALSE, selectedSlot |-> None, editingEvent |-> None]

\* nothing remembered, typed, read or deferred as the editors mount
SessionInit ==
  /\ selectedBlockId = Null
  /\ draft = None
  /\ pendingReads = {}
  /\ modals = [id \in Ids |-> ClosedModal]
  /\ timers = {}

\* NotionEditor takes no props: no host callback
NoHost ==
  /\ onChange = FALSE
  /\ reported = None
  /\ seedPending = FALSE

---------------------------------------------------------------------------
(* Text formatting of NotionEditor: the text-edit surface and the format menu *)

\* the longest serialized text the formatting commands are followed to
MaxHtml == 7

\* the blocks whose first contenteditable element shows block.content
HasEditable(block) ==
  HasSelectionHandler(block.type) /\ block.type # "toggle"

\* querySelector(`[data-block-id="${id}"] [contenteditable="true"]`) finds an
\* element
HasBlockElement(c, id) ==
  \E i \in 1..Len(c) : c[i].id = id /\ HasEditable(c[i])

\* the block whose element querySelector returns: the first in document order
BlockElementIndex(c, id) ==
  CHOOSE i \in 1..Len(c) :
    /\ c[i].id = id /\ HasEditable(c[i])
    /\ \A j \in 1..(i - 1) : ~(c[j].id = id /\ HasEditable(c[j]))

\* innerHTML of the element of block id: what was typed into it since React
\* rendered it last, or else the content React rendered
InnerHTML(c, d, id) ==
  IF d # None /\ d[1].id = id THEN d[1].text
  ELSE c[BlockElementIndex(c, id)].content

\* document.execCommand(command, false, value) on the selected text: the
\* serialized text afterwards; createLink without a value changes nothing
ExecCommand(command, value, html) ==
  IF command = "createLink"
  THEN IF value = None THEN html ELSE "<a>" \o html
  ELSE "<" \o command \o ">" \o html

\* the six buttons of the format menu
Formats == {"bold", "italic", "underline", "strikethrough", "code", "link"}

\* the user types into the editable text of a block: the surface changes,
\* no handler of NotionEditor runs
TypeText(blockId, text) ==
  /\ ~crashed
  /\ HasBlockElement(content, blockId)
  /\ IF draft = None THEN TRUE ELSE draft[1].id = blockId
  /\ text # InnerHTML(content, draft, blockId)
  /\ draft' = Some([id |-> blockId, text |-> text])
  /\ lastOp' = Op("typeText", blockId, text)
  /\ UNCHANGED <<content, now, menuVars, dragVars, crashed, initialContent,
                 deletedIds, overlayVars, hostVars, pageVars,
                 selectedBlockId, pendingReads, modals, timers>>

\* onBlur of the edited element: updateBlock(block.id, { content: innerHTML })
BlurEdited ==
  /\ ~crashed
  /\ draft # None
  /\ HasBlockElement(content, draft[1].id)
  /\ content' = UpdateBlockContent(content, draft[1].id,
                                   [content |-> draft[1].text])
  /\ draft' = None
  /\ lastOp' = Op("blur", draft[1].id, draft[1].text)
  /\ UNCHANGED <<now, menuVars, dragVars, crashed, initialContent,
                 deletedIds, overlayVars, hostVars, pageVars,
                 selectedBlockId, pendingReads, modals, timers>>

\* applyFormatting(format), reached from the bold, italic, underline,
\* strikethrough and link buttons of the format menu; url is what prompt()
\* returned for a link (None: cancelled or empty)
ApplyFormatting(format, url) ==
  /\ ~crashed
  /\ showFormatMenu
  /\ format # "code"
  /\ format # "link" => url = None
  /\ lastOp' = Op("applyFormatting", selectedBlockId,
                  [format |-> format, url |-> url])
  /\ IF selectedBlockId = Null
     THEN UNCHANGED <<content, draft, showFormatMenu>>
     ELSE /\ IF HasBlockElement(content, selectedBlockId)
             THEN LET html == ExecCommand(
                                IF format = "link" THEN "createLink"
                                ELSE format,
                                url,
                                InnerHTML(content, draft, selectedBlockId))
                  IN /\ Len(html) <= MaxHtml
                     /\ content' = UpdateBlockContent(
                                     content, selectedBlockId,
                                     [content |-> html])
                     /\ draft' = IF draft # None
                                    /\ draft[1].id = selectedBlockId
                                 THEN None ELSE draft
             ELSE UNCHANGED <<content, draft>>
          /\ showFormatMenu' = FALSE
  /\ UNCHANGED <<now, menuVars, dragVars, crashed, initialContent,
                 deletedIds, isImageModalOpen, hostVars, pageVars,
                 selectedBlockId, pendingReads, modals, timers>>

\* the code button of the format menu:
\* document.execCommand('insertHTML', false, '<code>&nbsp;</code>'), and
\* nothing else
InsertCode ==
  /\ ~crashed
  /\ showFormatMenu
  /\ selectedBlockId # Null
  /\ HasBlockElement(content, selectedBlockId)
  /\ LET html == ExecCommand("code", None,
                             InnerHTML(content, draft, selectedBlockId))
     IN /\ Len(html) <= MaxHtml
        /\ draft' = Some([id |-> selectedBlockId, text |-> html])
  /\ lastOp' = Op("applyFormatting", selectedBlockId,
                  [format |-> "code", url |-> None])
  /\ UNCHANGED <<content, now, menuVars, dragVars, crashed, initialContent,
                 deletedIds, overlayVars, hostVars, pageVars,
                 selectedBlockId, pendingReads, modals, timers>>

---------------------------------------------------------------------------
(* Image upload of NotionEditor *)

\* reader.result: the data URL of the file
ImagePayload == "data:image"

\* handleImageUpload with a file chosen: a FileReader is started whose
\* onloadend keeps the isImageModalOpen of this render
HandleImageUpload ==
  /\ ~crashed
  /\ isImageModalOpen # Null
  /\ pendingReads' = pendingReads \cup {isImageModalOpen}
  /\ lastOp' = Op("imageUpload", isImageModalOpen, "")
  /\ UNCHANGED <<content, now, menuVars, dragVars, crashed, initialContent,
                 deletedIds, overlayVars, hostVars, pageVars,
                 selectedBlockId, draft, modals, timers>>

\* reader.onloadend: updateBlock(isImageModalOpen, { content: reader.result })
\* with the id the closure kept, then setIsImageModalOpen(null)
ImageReadResolves(blockId) ==
  /\ ~crashed
  /\ blockId \in pendingReads
  /\ pendingReads' = pendingReads \ {blockId}
  /\ content' = UpdateBlockContent(content, blockId,
                                   [content |-> ImagePayload])
  /\ isImageModalOpen' = Null
  /\ lastOp' = Op("imageReadResolves", blockId, ImagePayload)
  /\ UNCHANGED <<now, menuVars, dragVars, crashed, initialContent,
                 deletedIds, showFormatMenu, hostVars, pageVars,
                 selectedBlockId, draft, modals, timers>>

---------------------------------------------------------------------------
(* Deferred focus callbacks *)

\* the callback addBlock deferred, in NotionEditor: the element is looked up
\* and focused if it is there; no handler of the editor is bound to the focus
FocusTimerFires(id) ==
  /\ ~crashed
  /\ FocusTimer("editor", id) \in timers
  /\ timers' = timers \ {FocusTimer("editor", id)}
  /\ lastOp' = Op("focusTimer", id, "")
  /\ UNCHANGED <<content, now, menuVars, dragVars, crashed, initialContent,
                 deletedIds, extVars>>

---------------------------------------------------------------------------
(* NotionEditorFormIntegrated: handlers and the change notification *)

\* the effect on [content, onChange]: if (onChange) onChange(content)
Notify(c) == IF onChange THEN Some(c) ELSE reported

\* (mutant) the notification effect skipped after an edit of a block
FormUpdateBlockUnreported(id, updates) ==
  /\ ~crashed
  /\ content' = UpdateBlockContent(content, id, updates)
  /\ reported' = reported
  /\ lastOp' = Op("updateBlock", id, updates)
  /\ UNCHANGED sessionVars
  /\ UNCHANGED timers
  /\ UNCHANGED <<now, menuVars, dragVars, crashed, initialContent,
                 deletedIds, overlayVars, onChange, seedPending, pageVars>>

\* updateBlock of the form-integrated editor, and the effect that follows
FormUpdateBlock(id, updates) ==
  /\ ~crashed
  /\ content' = UpdateBlockContent(content, id, updates)
  /\ reported' = Notify(content')
  /\ lastOp' = Op("updateBlock", id, updates)
  /\ UNCHANGED sessionVars
  /\ UNCHANGED timers
  /\ UNCHANGED <<now, menuVars, dragVars, crashed, initialContent,
                 deletedIds, overlayVars, onChange, seedPending, pageVars>>

\* addBlock of the form-integrated editor, and the effect that follows
FormAddBlock(type, afterId) ==
  /\ ~crashed
  /\ Len(content) < MaxBlocks
  /\ content' = AddBlockContent(content, NewBlock(type, now), afterId)
  /\ showBlockMenu' = Null
  /\ showSlashMenu' = Null
  /\ reported' = Notify(content')
  /\ timers' = timers \cup {FocusTimer("editor", BlockId(now))}
  /\ lastOp' = Op("addBlock", afterId, type)
  /\ UNCHANGED sessionVars
  /\ UNCHANGED <<now, showTypeMenu, dragVars, crashed, initialContent,
                 deletedIds, overlayVars, onChange, seedPending, pageVars>>

---------------------------------------------------------------------------
(* The page editor with the calendar (unnamed/part_000) *)

\* longest page and most events the page editor is explored with
MaxPageBlocks == 3
MaxEvents == 2

\* { id: '1', type: 'text', content: '' }
PageInitialBlock ==
  [id |-> InitialBlockId, type |-> "text", content |-> "", data |-> None]

\* the block addBlock builds; its id is Date.now().toString()
PageNewBlock(type, text, t) ==
  [id |-> BlockId(t), type |-> type, content |-> text,
   data |-> IF type = "calendar" THEN Some([selectedDate |-> t]) ELSE None]

\* the frame of a page editor handler: NotionEditor's state is another
\* component's
PageFrame ==
  UNCHANGED <<content, now, menuVars, dragVars, crashed, initialContent,
              deletedIds, overlayVars, hostVars>>

\* blocks.map(block => block.id === blockId ? { ...block, content } : block)
PageSetContent(bs, blockId, text) ==
  [i \in 1..Len(bs) |->
     IF bs[i].id = blockId THEN [bs[i] EXCEPT !.content = text] ELSE bs[i]]

\* blocks.map(... { ...block, data: { ...block.data, selectedDate: date } })
PageSetDate(bs, blockId, date) ==
  [i \in 1..Len(bs) |->
     IF bs[i].id = blockId
     THEN [bs[i] EXCEPT !.data = Some([selectedDate |-> date])]
     ELSE bs[i]]

\* activeBlockRef.current: the element of the active block, when one of the
\* editable blocks carries the active id (a calendar block takes no ref)
ActiveBlockRendered ==
  \E i \in 1..Len(blocks) :
    blocks[i].id = activeBlockId /\ blocks[i].type # "calendar"

\* the blocks that bind onKeyDown, onInput and onFocus
PageEditable(block) == block.type # "calendar"

\* handleKeyDown for "Enter", "Backspace" and "/"
PageHandleKeyDown(key, blockId) ==
  /\ lastOp' = Op("page:keyDown", blockId, key)
  /\ UNCHANGED sessionVars
  /\ PageFrame
  /\ UNCHANGED events
  /\ IF ~HasBlock(blocks, blockId)
     THEN UNCHANGED <<blocks, activeBlockId, slashOpen, timers>>
     ELSE LET block == Find(blocks, blockId)
              blockIndex == FindIndex(blocks, blockId)
              removed == FilterOutId(blocks, blockId)
          IN CASE key = "Enter" /\ slashOpen ->
                    /\ slashOpen' = FALSE
                    /\ UNCHANGED <<blocks, activeBlockId, timers>>
               [] key = "Enter" /\ ~slashOpen ->
                    /\ Len(blocks) < MaxPageBlocks
                    /\ blocks' = Splice(blocks, blockIndex + 1, 0,
                                        <<PageNewBlock("text", "", now)>>)
                    /\ activeBlockId' = BlockId(now)
                    /\ timers' = timers \cup {FocusTimer("page", BlockId(now))}
                    /\ UNCHANGED slashOpen
               [] key = "Backspace" /\ block.content = ""
                                    /\ Len(blocks) > 1 ->
                    /\ blocks' = removed
                    /\ activeBlockId' =
                         IF blockIndex > 0 /\ blockIndex - 1 < Len(removed)
                         THEN At(removed, blockIndex - 1).id
                         ELSE activeBlockId
                    /\ timers' =
                         IF blockIndex > 0 /\ blockIndex - 1 < Len(removed)
                         THEN timers \cup
                                {FocusTimer("page",
                                            At(removed, blockIndex - 1).id)}
                         ELSE timers
                    /\ UNCHANGED slashOpen
               [] key = "/" /\ block.content = "" ->
                    /\ slashOpen' = IF ActiveBlockRendered THEN TRUE
                                    ELSE slashOpen
                    /\ UNCHANGED <<blocks, activeBlockId, timers>>
               [] OTHER ->
                    UNCHANGED <<blocks, activeBlockId, slashOpen, timers>>

\* onInput of an editable block: handleContentChange
PageHandleContentChange(blockId, text) ==
  /\ blocks' = PageSetContent(blocks, blockId, text)
  /\ lastOp' = Op("page:contentChange", blockId, text)
  /\ UNCHANGED sessionVars
  /\ UNCHANGED timers
  /\ PageFrame
  /\ UNCHANGED <<activeBlockId, slashOpen, events>>

\* onFocus of an editable block: setActiveBlockId(block.id)
PageFocus(blockId) ==
  /\ activeBlockId' = blockId
  /\ lastOp' = Op("page:focus", blockId, "")
  /\ UNCHANGED sessionVars
  /\ UNCHANGED timers
  /\ PageFrame
  /\ UNCHANGED <<blocks, slashOpen, events>>

\* addBlock(type), the action of a slash menu item
PageAddBlock(type) ==
  /\ Len(blocks) < MaxPageBlocks
  /\ blocks' = Splice(blocks, FindIndex(blocks, activeBlockId) + 1, 0,
                      <<PageNewBlock(type, "", now)>>)
  /\ activeBlockId' = BlockId(now)
  /\ slashOpen' = FALSE
  /\ lastOp' = Op("page:addBlock", activeBlockId, type)
  /\ UNCHANGED sessionVars
  /\ UNCHANGED timers
  /\ PageFrame
  /\ UNCHANGED events

\* (mutant) deleteBlock that takes the events along with a calendar block
PageDeleteBlockDropsEvents(blockId) ==
  /\ lastOp' = Op("page:deleteBlock", blockId, "")
  /\ UNCHANGED <<selectedBlockId, draft, pendingReads>>
  /\ modals' = IF Len(blocks) > 1 /\ blockId \in DOMAIN modals
               THEN [modals EXCEPT ![blockId] = ClosedModal] ELSE modals
  /\ UNCHANGED timers
  /\ PageFrame
  /\ UNCHANGED slashOpen
  /\ IF Len(blocks) = 1
     THEN UNCHANGED <<blocks, activeBlockId, events>>
     ELSE /\ blocks' = FilterOutId(blocks, blockId)
          /\ activeBlockId' =
               IF activeBlockId = blockId /\ blocks' # <<>>
               THEN blocks'[1].id ELSE activeBlockId
          /\ events' = IF HasBlock(blocks, blockId)
                          /\ Find(blocks, blockId).type = "calendar"
                       THEN <<>> ELSE events

\* deleteBlock; newBlocks[0].id throws when no block is left, after
\* setBlocks was called
PageDeleteBlock(blockId) ==
  /\ lastOp' = Op("page:deleteBlock", blockId, "")
  /\ UNCHANGED <<selectedBlockId, draft, pendingReads>>
  /\ modals' = IF Len(blocks) > 1 /\ blockId \in DOMAIN modals
               THEN [modals EXCEPT ![blockId] = ClosedModal] ELSE modals
  /\ UNCHANGED timers
  /\ PageFrame
  /\ UNCHANGED <<slashOpen, events>>
  /\ IF Len(blocks) = 1
     THEN UNCHANGED <<blocks, activeBlockId>>
     ELSE /\ blocks' = FilterOutId(blocks, blockId)
          /\ activeBlockId' =
               IF activeBlockId = blockId /\ blocks' # <<>>
               THEN blocks'[1].id ELSE activeBlockId

\* the layer behind the slash menu: onClick={() => setShowSlashMenu(false)}
PageCloseSlashMenu ==
  /\ slashOpen
  /\ slashOpen' = FALSE
  /\ lastOp' = Op("page:closeSlashMenu", Null, "")
  /\ UNCHANGED sessionVars
  /\ UNCHANGED timers
  /\ PageFrame
  /\ UNCHANGED <<blocks, activeBlockId, events>>

\* handleDateSelect, a calendar's onDateSelect
HandleDateSelect(blockId, date) ==
  /\ blocks' = PageSetDate(blocks, blockId, date)
  /\ lastOp' = Op("page:dateSelect", blockId, date)
  /\ UNCHANGED sessionVars
  /\ UNCHANGED timers
  /\ PageFrame
  /\ UNCHANGED <<activeBlockId, slashOpen, events>>

\* { ...event, ...updatedEvent } over the fields the events are explored with
MergeEvent(event, updates) ==
  LET Pick(f) == IF f \in DOMAIN updates THEN updates[f] ELSE event[f]
  IN [id |-> Pick("id"), title |-> Pick("title"), color |-> Pick("color"),
      startTime |-> Pick("startTime")]

\* prev.map(event => event.id === eventId ? {...event, ...updated} : event)
UpdateEvents(evs, eventId, updates) ==
  [i \in 1..Len(evs) |->
     IF evs[i].id = eventId THEN MergeEvent(evs[i], updates) ELSE evs[i]]

\* handleEventCreate: the event gets the id Date.now().toString()
HandleEventCreate(event) ==
  /\ Len(events) < MaxEvents
  /\ events' = Append(events, MergeEvent(event, [id |-> BlockId(now)]))
  /\ lastOp' = Op("page:eventCreate", BlockId(now), event)
  /\ UNCHANGED sessionVars
  /\ UNCHANGED timers
  /\ PageFrame
  /\ UNCHANGED <<blocks, activeBlockId, slashOpen>>

HandleEventUpdate(eventId, updatedEvent) ==
  /\ events' = UpdateEvents(events, eventId, updatedEvent)
  /\ lastOp' = Op("page:eventUpdate", eventId, updatedEvent)
  /\ UNCHANGED sessionVars
  /\ UNCHANGED timers
  /\ PageFrame
  /\ UNCHANGED <<blocks, activeBlockId, slashOpen>>

HandleEventDelete(eventId) ==
  /\ events' = FilterOutId(events, eventId)
  /\ lastOp' = Op("page:eventDelete", eventId, "")
  /\ UNCHANGED sessionVars
  /\ UNCHANGED timers
  /\ PageFrame
  /\ UNCHANGED <<blocks, activeBlockId, slashOpen>>

\* a Date as the calendar reads it: isSameDay and getHours
DateTime(day, hour) == [day |-> day, hour |-> hour]

\* the '09:00' of the first day
NineOClock == DateTime(1, 9)

\* (mutant) getEventsForTimeSlot that lists the latest event first
GetEventsForTimeSlotLatestFirst(evs, date, hour) ==
  LET InSlot(event) == /\ event.startTime.day = date
                       /\ event.startTime.hour = hour
      listed == SelectSeq(evs, InSlot)
  IN [i \in 1..Len(listed) |-> listed[Len(listed) + 1 - i]]

\* getEventsForTimeSlot(date, time) of CalendarView: events.filter(...)
GetEventsForTimeSlot(evs, date, hour) ==
  LET InSlot(event) == /\ event.startTime.day = date
                       /\ event.startTime.hour = hour
  IN SelectSeq(evs, InSlot)

\* a calendar block is rendered: its CalendarView offers the event handlers
HasCalendar == \E i \in 1..Len(blocks) : blocks[i].type = "calendar"

\* the events prop renderBlock gives the CalendarView of a calendar block
EventsGivenTo(block) == events

\* the selectedDate prop: block.data?.selectedDate || new Date()
SelectedDate(block) ==
  IF block.data # None THEN block.data[1].selectedDate ELSE now

\* a CalendarView is mounted for the block: renderBlock's case 'calendar'
HasCalendarView(view) ==
  \E i \in 1..Len(blocks) : blocks[i].id = view /\ blocks[i].type = "calendar"

\* the frame of a CalendarView handler: it sets its own state and calls the
\* bridge of the page editor
ModalFrame ==
  /\ PageFrame
  /\ UNCHANGED <<blocks, activeBlockId, slashOpen>>
  /\ UNCHANGED <<selectedBlockId, draft, pendingReads>>
  /\ UNCHANGED timers

\* handleTimeSlotClick(date, time) of the CalendarView of block view
HandleTimeSlotClick(view, date, hour) ==
  /\ HasCalendarView(view)
  /\ modals' = [modals EXCEPT ![view] =
                  [showEventModal |-> TRUE,
                   selectedSlot |-> Some([date |-> date, time |-> hour]),
                   editingEvent |-> None]]
  /\ lastOp' = Op("calendar:slotClick", view, "")
  /\ UNCHANGED events
  /\ ModalFrame

\* handleEventClick(event): the event object listed is kept as editingEvent
HandleEventClick(view, event) ==
  /\ HasCalendarView(view)
  /\ modals' = [modals EXCEPT ![view] =
                  [showEventModal |-> TRUE,
                   selectedSlot |-> None,
                   editingEvent |-> Some(event)]]
  /\ lastOp' = Op("calendar:eventClick", view, "")
  /\ UNCHANGED events
  /\ ModalFrame

\* the header's create button: the slot is 09:00 of the selected date
CreateEventClick(view) ==
  /\ HasCalendarView(view)
  /\ modals' = [modals EXCEPT ![view] =
                  [showEventModal |-> TRUE,
                   selectedSlot |->
                     Some([date |-> SelectedDate(Find(blocks, view)),
                           time |-> 9]),
                   editingEvent |-> None]]
  /\ lastOp' = Op("calendar:createClick", view, "")
  /\ UNCHANGED events
  /\ ModalFrame

\* onSave of the EventModal: onEventUpdate(editingEvent.id, eventData) when
\* editingEvent is set, onEventCreate(eventData) otherwise; then the modal
\* closes.  The bridge calls are handleEventUpdate and handleEventCreate.
ModalSave(view, eventData) ==
  /\ HasCalendarView(view)
  /\ modals[view].showEventModal
  /\ IF modals[view].editingEvent # None
     THEN events' = UpdateEvents(events, modals[view].editingEvent[1].id,
                                 eventData)
     ELSE /\ Len(events) < MaxEvents
          /\ events' = Append(events,
                              MergeEvent(eventData, [id |-> BlockId(now)]))
  /\ modals' = [modals EXCEPT ![view].showEventModal = FALSE]
  /\ lastOp' = Op("calendar:save", view, "")
  /\ ModalFrame

\* onDelete of the EventModal, offered when editingEvent is set
ModalDelete(view) ==
  /\ HasCalendarView(view)
  /\ modals[view].showEventModal
  /\ modals[view].editingEvent # None
  /\ events' = FilterOutId(events, modals[view].editingEvent[1].id)
  /\ modals' = [modals EXCEPT ![view].showEventModal = FALSE]
  /\ lastOp' = Op("calendar:delete", view, "")
  /\ ModalFrame

\* onClose of the EventModal
ModalClose(view) ==
  /\ HasCalendarView(view)
  /\ modals[view].showEventModal
  /\ modals' = [modals EXCEPT ![view].showEventModal = FALSE]
  /\ lastOp' = Op("calendar:close", view, "")
  /\ UNCHANGED events
  /\ ModalFrame

\* the page editor as it mounts
PageInit ==
  /\ blocks = <<PageInitialBlock>>
  /\ activeBlockId = InitialBlockId
  /\ slashOpen = FALSE
  /\ events = <<>>

\* querySelector(`[data-block-id="${id}"]`) of the page editor finds an element
PageHasElement(bs, id) ==
  \E i \in 1..Len(bs) : bs[i].id = id /\ PageEditable(bs[i])

\* the callback handleKeyDown deferred, in the page editor: the element is
\* focused if it is there, and its onFocus runs setActiveBlockId(block.id)
PageFocusTimerFires(id) ==
  /\ FocusTimer("page", id) \in timers
  /\ timers' = timers \ {FocusTimer("page", id)}
  /\ activeBlockId' = IF PageHasElement(blocks, id) THEN id ELSE activeBlockId
  /\ lastOp' = Op("page:focusTimer", id, "")
  /\ UNCHANGED sessionVars
  /\ PageFrame
  /\ UNCHANGED <<blocks, slashOpen, events>>

---------------------------------------------------------------------------
(* Specification of the block store (NotionEditor) *)

\* block types the store is explored with
StoreTypes == {"paragraph", "todo"}

Init ==
  /\ content = <<WelcomeBlock>>
  /\ now = InitialBlockId + 1
  /\ showBlockMenu = Null
  /\ showSlashMenu = Null
  /\ showTypeMenu = Null
  /\ dragItem = NoIndex
  /\ dragOverItem = NoIndex
  /\ crashed = FALSE
  /\ initialContent = None
  /\ deletedIds = {}
  /\ lastOp = Op("init", Null, "")
  /\ OverlayInit /\ SessionInit
  /\ NoHost
  /\ PageInit

Next ==
  \/ Tick
  \/ \E t \in StoreTypes, a \in Ids \cup {Null} : AddBlock(t, a)
  \/ \E id \in Ids : DeleteBlock(id)

Spec == Init /\ [][Next]_vars

---------------------------------------------------------------------------
(* Specification of field edits and retypes (NotionEditor) *)

EditTypes == {"paragraph", "todo", "table"}
\* onBlur of a text block; the alignment buttons
EditUpdates == {[content |-> "hi"], [alignment |-> "center"]}

\* documents the edits start from: the initial one; after addBlock('todo');
\* after addBlock('paragraph'), deleteBlock('block-1') and addBlock('todo')
\* within one clock reading (two blocks with one id)
EditDocs ==
  {<<WelcomeBlock>>,
   <<WelcomeBlock, NewBlock("todo", InitialBlockId + 1)>>,
   <<NewBlock("paragraph", InitialBlockId + 1),
     NewBlock("todo", InitialBlockId + 1)>>}

InitEdit ==
  /\ content \in EditDocs
  /\ now = InitialBlockId + 1
  /\ showBlockMenu = Null
  /\ showSlashMenu = Null
  /\ showTypeMenu = Null
  /\ dragItem = NoIndex
  /\ dragOverItem = NoIndex
  /\ crashed = FALSE
  /\ initialContent = None
  /\ deletedIds = {}
  /\ lastOp = Op("init", Null, "")
  /\ OverlayInit /\ SessionInit
  /\ NoHost
  /\ PageInit

NextEdit ==
  \/ \E id \in Ids, u \in EditUpdates : UpdateBlock(id, u)
  \/ \E id \in Ids, t \in EditTypes : ChangeBlockType(id, t)
  \/ \E id \in Ids : DeleteBlock(id)

SpecEdit == InitEdit /\ [][NextEdit]_vars

---------------------------------------------------------------------------
(* NotionEditorFormIntegrated: the editor seeded by its host *)

\* the block the editor falls back to when the host passes no initialContent
FormDefaultBlock == [WelcomeBlock EXCEPT !.content = "Start writing..."]

\* documents the host is explored passing as initialContent
SeedDocs == {<<>>,
             <<FormDefaultBlock>>,
             <<FormDefaultBlock, NewBlock("todo", InitialBlockId + 1)>>}
SeedProps == {None} \cup {Some(d) : d \in SeedDocs}

\* useState(initialContent || [default block]): an array, even an empty one,
\* is truthy
InitialFormContent(prop) ==
  IF prop # None THEN prop[1] ELSE <<FormDefaultBlock>>

\* (mutant) a seed effect that ignores an empty initialContent
SeedContentSkipsEmpty(c, prop) ==
  IF prop # None /\ prop[1] # <<>> THEN prop[1] ELSE c

\* the effect on [initialContent]: if (initialContent) setContent(initialContent)
SeedContent(c, prop) ==
  IF prop # None THEN prop[1] ELSE c

\* edits the form-integrated editor's blocks offer (onBlur, the todo checkbox)
FormUpdates == {[content |-> "hi"], [checked |-> Some(TRUE)]}

\* the host renders the editor with a (new) initialContent; the effect runs
HostSeed(prop) ==
  /\ ~crashed
  /\ initialContent' = prop
  /\ content' = SeedContent(content, prop)
  /\ lastOp' = Op("seed", Null, "")
  /\ UNCHANGED sessionVars
  /\ UNCHANGED timers
  /\ reported' = Notify(content')
  /\ UNCHANGED <<overlayVars, onChange, seedPending, pageVars>>
  /\ UNCHANGED <<now, menuVars, dragVars, crashed, deletedIds>>

\* the "+" button of a block: setShowBlockMenu(open on it ? null : its id)
ToggleBlockMenu(id) ==
  /\ ~crashed
  /\ showBlockMenu' = IF showBlockMenu = id THEN Null ELSE id
  /\ lastOp' = Op("toggleBlockMenu", id, "")
  /\ UNCHANGED timers
  /\ UNCHANGED extVars
  /\ UNCHANGED <<content, now, showSlashMenu, showTypeMenu, dragVars, crashed,
                 initialContent, deletedIds>>

\* an effect of the editor has yet to run: React runs the effects of a render
\* before it starts another update
EffectsPending ==
  seedPending \/ (onChange /\ reported # Some(content))

\* updateBlock, up to the render: setContent(currentContent => ...map(...))
FormUpdateBlockRender(id, updates) ==
  /\ ~crashed
  /\ ~EffectsPending
  /\ content' = UpdateBlockContent(content, id, updates)
  /\ lastOp' = Op("updateBlock", id, "")
  /\ UNCHANGED <<now, menuVars, dragVars, crashed, initialContent,
                 deletedIds, overlayVars, hostVars, pageVars, sessionVars,
                 timers>>

\* addBlock, up to the render
FormAddBlockRender(type, afterId) ==
  /\ ~crashed
  /\ ~EffectsPending
  /\ Len(content) < MaxBlocks
  /\ content' = AddBlockContent(content, NewBlock(type, now), afterId)
  /\ showBlockMenu' = Null
  /\ showSlashMenu' = Null
  /\ timers' = timers \cup {FocusTimer("editor", BlockId(now))}
  /\ lastOp' = Op("addBlock", afterId, type)
  /\ UNCHANGED <<now, showTypeMenu, dragVars, crashed, initialContent,
                 deletedIds, overlayVars, hostVars, pageVars, sessionVars>>

\* the effect on [content, onChange]: if (onChange) onChange(content); the
\* host stores the sequence it receives
NotifyEffect ==
  /\ ~crashed
  /\ onChange
  /\ reported # Some(content)
  /\ reported' = Some(content)
  /\ lastOp' = Op("notifyEffect", Null, "")
  /\ UNCHANGED <<content, now, menuVars, dragVars, crashed, initialContent,
                 deletedIds, overlayVars, onChange, seedPending, pageVars,
                 sessionVars, timers>>

\* the Controller of NotionEditorForm renders the editor again with the value
\* it stored: initialContent={value}
ControllerRender ==
  /\ ~crashed
  /\ ~EffectsPending
  /\ reported # None
  /\ initialContent # reported
  /\ initialContent' = reported
  /\ seedPending' = TRUE
  /\ lastOp' = Op("controllerRender", Null, "")
  /\ UNCHANGED <<content, now, menuVars, dragVars, crashed, deletedIds,
                 overlayVars, onChange, reported, pageVars, sessionVars,
                 timers>>

\* (mutant) a seed effect that sets the editor back to its default block
SeedEffectResets ==
  /\ ~crashed
  /\ seedPending
  /\ content' = <<FormDefaultBlock>>
  /\ seedPending' = FALSE
  /\ lastOp' = Op("seedEffect", Null, "")
  /\ UNCHANGED <<now, menuVars, dragVars, crashed, initialContent,
                 deletedIds, overlayVars, onChange, reported, pageVars,
                 sessionVars, timers>>

\* the effect on [initialContent]: if (initialContent) setContent(initialContent)
SeedEffect ==
  /\ ~crashed
  /\ seedPending
  /\ content' = SeedContent(content, initialContent)
  /\ seedPending' = FALSE
  /\ lastOp' = Op("seedEffect", Null, "")
  /\ UNCHANGED <<now, menuVars, dragVars, crashed, initialContent,
                 deletedIds, overlayVars, onChange, reported, pageVars,
                 sessionVars, timers>>

\* the editor mounts under the Controller: the host's value is the prop, both
\* effects have yet to run
InitLoop ==
  /\ initialContent \in SeedProps
  /\ content = InitialFormContent(initialContent)
  /\ now = InitialBlockId + 1
  /\ showBlockMenu = Null
  /\ showSlashMenu = Null
  /\ showTypeMenu = Null
  /\ dragItem = NoIndex
  /\ dragOverItem = NoIndex
  /\ crashed = FALSE
  /\ deletedIds = {}
  /\ lastOp = Op("init", Null, "")
  /\ OverlayInit /\ SessionInit
  /\ onChange = TRUE
  /\ reported = None
  /\ seedPending = TRUE
  /\ PageInit

\* the longest document the loop is explored growing
MaxLoopBlocks == 2

\* the editor's mutations and the notify / re-seed steps that follow them
NextLoop ==
  \/ \E id \in IdsOf(content) :
       /\ Len(content) < MaxLoopBlocks
       /\ FormAddBlockRender("paragraph", id)
  \/ \E id \in IdsOf(content), u \in FormUpdates :
       FormUpdateBlockRender(id, u)
  \/ NotifyEffect
  \/ ControllerRender
  \/ SeedEffect

\* the effects of a render and the render of the Controller are scheduled by
\* React and run
SpecLoop ==
  /\ InitLoop /\ [][NextLoop]_vars
  /\ WF_vars(NotifyEffect) /\ WF_vars(ControllerRender) /\ WF_vars(SeedEffect)

InitForm ==
  /\ initialContent \in SeedProps
  /\ content = InitialFormContent(initialContent)
  /\ now = InitialBlockId + 1
  /\ showBlockMenu = Null
  /\ showSlashMenu = Null
  /\ showTypeMenu = Null
  /\ dragItem = NoIndex
  /\ dragOverItem = NoIndex
  /\ crashed = FALSE
  /\ deletedIds = {}
  /\ lastOp = Op("init", Null, "")
  /\ OverlayInit /\ SessionInit
  /\ onChange \in BOOLEAN
  /\ reported = IF onChange THEN Some(content) ELSE None
  /\ seedPending = FALSE
  /\ PageInit

\* handlers are bound to the blocks that are rendered
NextForm ==
  \/ Tick
  \/ \E prop \in SeedProps : HostSeed(prop)
  \/ \E id \in IdsOf(content) : FormAddBlock("paragraph", id)
  \/ \E id \in IdsOf(content), u \in FormUpdates : FormUpdateBlock(id, u)
  \/ \E id \in IdsOf(content) : ToggleBlockMenu(id)

SpecForm == InitForm /\ [][NextForm]_vars

\* the host's seeds and the editor's mutations, within one clock reading
NextNotify ==
  \/ \E prop \in SeedProps : HostSeed(prop)
  \/ \E id \in IdsOf(content) : FormAddBlock("paragraph", id)
  \/ \E id \in IdsOf(content), u \in FormUpdates : FormUpdateBlock(id, u)

SpecNotify == InitForm /\ [][NextNotify]_vars

---------------------------------------------------------------------------
(* Specification of drag and drop (NotionEditor) *)

\* the document the drags start from: the initial block and one paragraph
\* added at each clock reading
DragDoc ==
  <<WelcomeBlock>> \o
  [i \in 1..(MaxClock - InitialBlockId) |->
     NewBlock("paragraph", InitialBlockId + i)]

InitDrag ==
  /\ content = DragDoc
  /\ now = MaxClock
  /\ showBlockMenu = Null
  /\ showSlashMenu = Null
  /\ showTypeMenu = Null
  /\ dragItem = NoIndex
  /\ dragOverItem = NoIndex
  /\ crashed = FALSE
  /\ initialContent = None
  /\ deletedIds = {}
  /\ lastOp = Op("init", Null, "")
  /\ OverlayInit /\ SessionInit
  /\ NoHost
  /\ PageInit

\* handlers are bound to the blocks that are rendered
NextDrag ==
  \/ \E i \in 0..(Len(content) - 1) : DragStart(i)
  \/ \E i \in 0..(Len(content) - 1) : DragEnter(i)
  \/ DragEnd
  \/ \E id \in IdsOf(content) : DeleteBlock(id)

SpecDrag == InitDrag /\ [][NextDrag]_vars

---------------------------------------------------------------------------
(* Specification of the table grid (NotionEditor) *)

\* longest document the grid editors are explored on
MaxGridBlocks == 2

GridTypes == {"table", "paragraph"}
\* what is typed into a header or a cell; the inputs typed into are the
\* first header and the first cell of the first row
GridTexts == {"x"}

\* handlers are bound to the blocks that are rendered; the blocks retyped are
\* the added ones
NextGrid ==
  \/ Len(content) < MaxGridBlocks /\ AddBlock("table", Null)
  \/ \E id \in IdsOf(content) \ {InitialBlockId}, t \in GridTypes :
       ChangeBlockType(id, t)
  \/ \E id \in IdsOf(content) : AddTableRow(id)
  \/ \E id \in IdsOf(content) : AddTableColumn(id)
  \/ \E id \in IdsOf(content), r \in 0..(MaxRows - 1) : RemoveTableRow(id, r)
  \/ \E id \in IdsOf(content), c \in 0..(MaxCols - 1) :
       RemoveTableColumn(id, c)
  \/ \E p \in 0..(Len(content) - 1), x \in GridTexts : SetHeader(p, 0, x)
  \/ \E p \in 0..(Len(content) - 1), x \in GridTexts : SetCell(p, 0, 0, x)

SpecGrid == Init /\ [][NextGrid]_vars

---------------------------------------------------------------------------
(* Specification of the chart editors (NotionEditor) *)

ChartTypes == {"chart-bar", "chart-pie", "paragraph"}
\* what is typed into a chart; the inputs typed into are the first label and
\* the first value
ChartTexts == {"x"}
ChartValues == {7}

\* handlers are bound to the blocks that are rendered; the blocks retyped are
\* the added ones
NextChart ==
  \/ Len(content) < MaxGridBlocks /\ AddBlock("chart-bar", Null)
  \/ \E id \in IdsOf(content) \ {InitialBlockId}, t \in ChartTypes :
       ChangeBlockType(id, t)
  \/ \E id \in IdsOf(content) : AddChartDataPoint(id)
  \/ \E id \in IdsOf(content), i \in 0..(MaxPoints - 1) :
       RemoveChartDataPoint(id, i)
  \/ \E p \in 0..(Len(content) - 1), x \in ChartTexts : SetLabel(p, 0, x)
  \/ \E p \in 0..(Len(content) - 1), v \in ChartValues : SetValue(p, 0, v)

SpecChart == Init /\ [][NextChart]_vars

---------------------------------------------------------------------------
(* Specification of one structured block, retyped between table and chart *)
(* (NotionEditor)                                                         *)

StructTypes == {"table", "chart-bar", "chart-pie", "paragraph"}

\* the document is the initial block; handlers are bound to it
NextStruct ==
  \/ \E t \in StructTypes : ChangeBlockType(InitialBlockId, t)
  \/ AddTableRow(InitialBlockId)
  \/ AddTableColumn(InitialBlockId)
  \/ \E r \in 0..(MaxRows - 1) : RemoveTableRow(InitialBlockId, r)
  \/ \E c \in 0..(MaxCols - 1) : RemoveTableColumn(InitialBlockId, c)
  \/ AddChartDataPoint(InitialBlockId)
  \/ \E i \in 0..(MaxPoints - 1) : RemoveChartDataPoint(InitialBlockId, i)
  \/ \E x \in ChartTexts : SetLabel(0, 0, x)
  \/ \E v \in ChartValues : SetValue(0, 0, v)

SpecStruct == Init /\ [][NextStruct]_vars

---------------------------------------------------------------------------
(* Specification of several tables (NotionEditor) *)

\* longest document the tables are explored on
MaxTableBlocks == 3

\* handlers are bound to the blocks that are rendered
NextTables ==
  \/ Len(content) < MaxTableBlocks /\ AddBlock("table", Null)
  \/ \E id \in IdsOf(content) : AddTableRow(id)
  \/ \E id \in IdsOf(content) : AddTableColumn(id)
  \/ \E id \in IdsOf(content), r \in 0..(MaxRows - 1) : RemoveTableRow(id, r)
  \/ \E id \in IdsOf(content), c \in 0..(MaxCols - 1) :
       RemoveTableColumn(id, c)

SpecTables == Init /\ [][NextTables]_vars

---------------------------------------------------------------------------
(* Specification of retypes and flips (NotionEditor) *)

TypeTargets == {"paragraph", "heading1", "list", "todo", "toggle", "table",
                "chart-bar", "calendar"}

\* documents the retypes start from: the initial one; after
\* addBlock('calendar') and deleteBlock('block-1'); after addBlock('paragraph'),
\* "hi" typed into it, addBlock('todo') within the same clock reading and
\* deleteBlock('block-1') (two blocks with one id and different content)
TypeDocs ==
  {<<WelcomeBlock>>,
   <<NewBlock("calendar", InitialBlockId + 1)>>,
   <<Merge(NewBlock("paragraph", InitialBlockId + 1), [content |-> "hi"]),
     NewBlock("todo", InitialBlockId + 1)>>}

InitType ==
  /\ content \in TypeDocs
  /\ now = InitialBlockId + 1
  /\ showBlockMenu = Null
  /\ showSlashMenu = Null
  /\ showTypeMenu = Null
  /\ dragItem = NoIndex
  /\ dragOverItem = NoIndex
  /\ crashed = FALSE
  /\ initialContent = None
  /\ deletedIds = {}
  /\ lastOp = Op("init", Null, "")
  /\ OverlayInit /\ SessionInit
  /\ NoHost
  /\ PageInit

NextType ==
  \/ \E id \in Ids, t \in TypeTargets : ChangeBlockType(id, t)
  \/ \E id \in Ids : ToggleTodo(id)
  \/ \E id \in Ids : ToggleCollapse(id)

SpecType == InitType /\ [][NextType]_vars

---------------------------------------------------------------------------
(* Specification of keys and retypes of text blocks (NotionEditor) *)

KeyTypes == {"paragraph", "list", "calendar"}
Keys == {"/", "Escape", "Enter"}

\* handlers are bound to the blocks that are rendered
NextKeys ==
  \/ \E id \in IdsOf(content), t \in KeyTypes : ChangeBlockType(id, t)
  \/ \E i \in 1..Len(content), k \in Keys :
       HasKeyHandler(content[i].type) /\ HandleSlashCommand(k, content[i].id)
  \/ \E id \in IdsOf(content), u \in EditUpdates : UpdateBlock(id, u)

\* documents the keys start from: the initial one; after addBlock('calendar')
KeyDocs ==
  {<<WelcomeBlock>>,
   <<WelcomeBlock, NewBlock("calendar", InitialBlockId + 1)>>}

InitKeys ==
  /\ content \in KeyDocs
  /\ now = InitialBlockId + 1
  /\ showBlockMenu = Null
  /\ showSlashMenu = Null
  /\ showTypeMenu = Null
  /\ dragItem = NoIndex
  /\ dragOverItem = NoIndex
  /\ crashed = FALSE
  /\ initialContent = None
  /\ deletedIds = {}
  /\ lastOp = Op("init", Null, "")
  /\ OverlayInit /\ SessionInit
  /\ NoHost
  /\ PageInit

SpecKeys == InitKeys /\ [][NextKeys]_vars

---------------------------------------------------------------------------
(* Specification of the earlier changeBlockType (NotionEditor) *)

NextSecond ==
  \/ \E id \in Ids, u \in EditUpdates : UpdateBlock(id, u)
  \/ \E id \in Ids, t \in TypeTargets : ChangeBlockTypeSecond(id, t)

SpecSecond == Init /\ [][NextSecond]_vars

---------------------------------------------------------------------------
(* Claims on the block store, specification Spec *)

\* the block a step of addBlock(type, ...) is claimed to create
IsFreshBlock(b, type) ==
  /\ b.type = type
  /\ b.content = ""
  /\ b.checked = IF type = "todo" THEN Some(FALSE) ELSE None
  /\ b.collapsed = None
  /\ b.tableData = None
  /\ b.chartData = None

\* C1: in every reachable state of the editor, whatever was added, deleted,
\* moved, updated or re-seeded from the host's initialContent, the document
\* holds at least one block.
C1_AtLeastOneBlock == Len(content) >= 1

\* C2: after every mutation no two blocks of the document have the same id,
\* and no block carries the id of a block deleted earlier.
C2_UniqueIdsNeverReused ==
  /\ \A i, j \in 1..Len(content) : i # j => content[i].id # content[j].id
  /\ \A i \in 1..Len(content) : content[i].id \notin deletedIds

\* C3: addBlock(t, afterId) with afterId the id of the block at index i gives
\* a sequence one longer with the new block at index i+1 and the previous
\* blocks in their order; without afterId the new block is last; the new
\* block has type t and its defaults.
C3_AddBlockInsertsAfter ==
  [][lastOp'.op = "addBlock" =>
       LET a == lastOp'.id
           t == lastOp'.arg
           n == Len(content)
       IN /\ Len(content') = n + 1
          /\ a # Null =>
               \A i \in 0..(n - 1) :
                 At(content, i).id = a =>
                   /\ IsFreshBlock(At(content', i + 1), t)
                   /\ FilterOutIndex(content', i + 1) = content
          /\ a = Null =>
               /\ IsFreshBlock(At(content', n), t)
               /\ SubSeq(content', 1, n) = content]_vars

\* C4: addBlock(t, afterId) with an afterId no block has appends: the new
\* block is last and every existing block keeps its index.
C4_UnknownAfterIdAppends ==
  [][(/\ lastOp'.op = "addBlock"
      /\ lastOp'.id # Null
      /\ ~HasBlock(content, lastOp'.id)) =>
       /\ Len(content') = Len(content) + 1
       /\ SubSeq(content', 1, Len(content)) = content
       /\ IsFreshBlock(At(content', Len(content)), lastOp'.arg)]_vars

\* C5: deleteBlock(id) on a document of exactly one block leaves the block
\* sequence unchanged, for every id.
C5_DeleteAtFloorIsNoOp ==
  [][(lastOp'.op = "deleteBlock" /\ Len(content) = 1) =>
       content' = content]_vars

\* C5 witness: deleteBlock was called with the id of the only block, which
\* is still there.
C5_Witness ==
  /\ lastOp.op = "deleteBlock"
  /\ Len(content) = 1
  /\ content[1].id = lastOp.id

\* C6: deleteBlock(id) on a document of more than one block, id present,
\* removes that block and nothing else: the length drops by exactly one and
\* the rest is the previous sequence without that element.
C6_DeleteRemovesExactlyOne ==
  [][(/\ lastOp'.op = "deleteBlock"
      /\ Len(content) > 1
      /\ HasBlock(content, lastOp'.id)) =>
       /\ Len(content') = Len(content) - 1
       /\ \E i \in 0..(Len(content) - 1) :
            /\ At(content, i).id = lastOp'.id
            /\ content' = FilterOutIndex(content, i)]_vars

---------------------------------------------------------------------------
(* Claims on field edits and retypes, specification SpecEdit *)

BlockFields == DOMAIN WelcomeBlock

\* C7: updateBlock, changeType and deleteBlock with an id no block has leave
\* the block sequence exactly as it was and raise no error.
C7_UnknownIdIsNoOp ==
  [][(/\ lastOp'.op \in {"updateBlock", "changeBlockType", "deleteBlock"}
      /\ ~HasBlock(content, lastOp'.id)) =>
       (content' = content /\ ~crashed')]_vars

\* C7 witness: a document of two blocks after a deleteBlock whose id no block
\* has and no deleted block had.
C7_Witness ==
  /\ lastOp.op = "deleteBlock"
  /\ ~HasBlock(content, lastOp.id)
  /\ lastOp.id \notin deletedIds
  /\ Len(content) = 2

\* C8: updateBlock(id, partialFields) gives every block with that id the
\* given fields' new values and keeps its other fields; every other block,
\* the order and the length are unchanged.
C8_UpdateMergesFields ==
  [][lastOp'.op = "updateBlock" =>
       LET id == lastOp'.id
           u == lastOp'.arg
       IN /\ Len(content') = Len(content)
          /\ \A i \in 1..Len(content) :
               IF content[i].id = id
               THEN /\ \A f \in DOMAIN u : content'[i][f] = u[f]
                    /\ \A f \in BlockFields \ DOMAIN u :
                         content'[i][f] = content[i][f]
               ELSE content'[i] = content[i]]_vars

\* C8 witness: an updateBlock has written "hi" into one block of a document
\* whose other block has another id.
C8_Witness ==
  /\ lastOp.op = "updateBlock"
  /\ lastOp.arg = [content |-> "hi"]
  /\ Len(content) = 2
  /\ \E i, j \in 1..2 :
       /\ content[i].id = lastOp.id
       /\ content[i].content = "hi"
       /\ content[j].id # lastOp.id
       /\ content[j].content # "hi"

---------------------------------------------------------------------------
(* Claims on drag and drop, specification SpecDrag *)

\* C9: a dragEnd that commits (dragStart recorded fromIndex, dragEnter
\* recorded toIndex), whatever handlers ran in between, gives a permutation
\* of the previous sequence: both indices are within it, the length is
\* unchanged, the block formerly at fromIndex is at toIndex and the other
\* blocks keep their relative order.
C9_DragCommitIsPermutation ==
  [][(/\ lastOp'.op = "dragEnd"
      /\ dragItem # NoIndex
      /\ dragOverItem # NoIndex) =>
       /\ dragItem < Len(content)
       /\ dragOverItem < Len(content)
       /\ Len(content') = Len(content)
       /\ At(content', dragOverItem) = At(content, dragItem)
       /\ FilterOutIndex(content', dragOverItem) =
            FilterOutIndex(content, dragItem)]_vars

---------------------------------------------------------------------------
(* Claims on the table grid, specification SpecGrid *)

\* every row of the table has as many cells as the table has headers
RowsMatchHeaders(td) ==
  \A r \in 1..Len(td.rows) : Len(td.rows[r]) = Len(td.headers)

\* C10: in every table block, after every grid mutation (addRow, addColumn,
\* removeRow, removeColumn, setHeader, setCell) and after an addBlock or a
\* changeType that creates a table, every row has exactly as many cells as
\* there are headers.
C10_RowsMatchHeaders ==
  \A i \in 1..Len(content) :
    content[i].type = "table" =>
      /\ content[i].tableData # None
      /\ RowsMatchHeaders(content[i].tableData[1])

\* C10 witness: addTableColumn has widened a table of more than one row to
\* MaxCols headers.
C10_Witness ==
  /\ lastOp.op = "addTableColumn"
  /\ \E i \in 1..Len(content) :
       /\ content[i].id = lastOp.id
       /\ content[i].type = "table"
       /\ content[i].tableData # None
       /\ Len(content[i].tableData[1].headers) = MaxCols
       /\ Len(content[i].tableData[1].rows) > 1

---------------------------------------------------------------------------
(* Claims on the chart editors, specification SpecChart *)

\* C11: in every chart block (chart-bar or chart-pie), after every
\* addDataPoint, removeDataPoint, setLabel and setValue and after an addBlock
\* or a changeType that creates a chart, there are as many labels as values.
C11_LabelsMatchValues ==
  \A i \in 1..Len(content) :
    IsChartType(content[i].type) =>
      /\ content[i].chartData # None
      /\ Len(content[i].chartData[1].labels) =
           Len(content[i].chartData[1].values)

\* C11 witness: removeChartDataPoint has taken one point out of a chart that
\* had three (a chart of two points is above the floor, so the call removed).
C11_Witness ==
  /\ lastOp.op = "removeChartDataPoint"
  /\ \E i \in 1..Len(content) :
       /\ content[i].id = lastOp.id
       /\ IsChartType(content[i].type)
       /\ content[i].chartData # None
       /\ Len(content[i].chartData[1].labels) = 2
       /\ Len(content[i].chartData[1].values) = 2

---------------------------------------------------------------------------
(* Claims on one structured block, specification SpecStruct *)

\* C12: removeRow on a table of exactly one row, removeColumn on a table of
\* exactly one column and removeDataPoint on a chart of exactly one point
\* leave the document as it was; and no table ever has fewer than one row or
\* one column, no chart fewer than one point.
C12_RemoveAtFloorIsNoOp ==
  /\ [][/\ (/\ lastOp'.op = "removeTableRow"
            /\ HasTable(content, lastOp'.id)
            /\ Len(TableOf(content, lastOp'.id).rows) = 1) =>
              content' = content
        /\ (/\ lastOp'.op = "removeTableColumn"
            /\ HasTable(content, lastOp'.id)
            /\ Len(TableOf(content, lastOp'.id).headers) = 1) =>
              content' = content
        /\ (/\ lastOp'.op = "removeChartDataPoint"
            /\ HasChart(content, lastOp'.id)
            /\ Len(ChartOf(content, lastOp'.id).labels) = 1) =>
              content' = content]_vars
  /\ [](\A i \in 1..Len(content) :
          /\ content[i].tableData # None =>
               /\ Len(content[i].tableData[1].rows) >= 1
               /\ Len(content[i].tableData[1].headers) >= 1
          /\ content[i].chartData # None =>
               /\ Len(content[i].chartData[1].labels) >= 1
               /\ Len(content[i].chartData[1].values) >= 1)

\* C12 witness: after a removeChartDataPoint the chart, which started with
\* three points, is at its floor of one point.
C12_Witness ==
  /\ lastOp.op = "removeChartDataPoint"
  /\ HasChart(content, lastOp.id)
  /\ Len(ChartOf(content, lastOp.id).labels) = 1
  /\ Len(ChartOf(content, lastOp.id).values) = 1

---------------------------------------------------------------------------
(* Claims on several tables, specification SpecTables *)

\* C13: addColumn on a table with k headers appends the header "Column k+1"
\* and one empty cell to every row of that table, and leaves its existing
\* headers and cells unchanged and in place.
C13_AddColumnAppends ==
  [][lastOp'.op = "addTableColumn" =>
       \A i \in 1..Len(content) :
         (/\ content[i].id = lastOp'.id
          /\ content[i].type = "table"
          /\ content[i].tableData # None) =>
           LET td == content[i].tableData[1]
               k == Len(td.headers)
           IN /\ Len(content') = Len(content)
              /\ content'[i].tableData # None
              /\ content'[i].tableData[1].headers =
                   Append(td.headers, ColumnName(k + 1))
              /\ content'[i].tableData[1].rows =
                   [r \in 1..Len(td.rows) |-> Append(td.rows[r], "")]]_vars

---------------------------------------------------------------------------
(* Specification of the overlays (NotionEditor) *)

\* block types the menus are explored offering
OverlayTypes == {"paragraph", "image"}
\* the text a blur stores after a "/" was typed
OverlayUpdates == {[content |-> "/"]}

\* handlers are bound to what is rendered: a menu's items while the menu is
\* open on a rendered block, the delete button above one block, the image
\* placeholder on image blocks
NextOverlay ==
  \/ \E id \in IdsOf(content) : ToggleBlockMenu(id)
  \/ \E id \in IdsOf(content) : ToggleTypeMenu(id)
  \/ /\ showBlockMenu \in IdsOf(content)
     /\ Len(content) < MaxGridBlocks
     /\ \E t \in OverlayTypes : AddBlock(t, showBlockMenu)
  \/ /\ showSlashMenu # Null
     /\ Len(content) < MaxGridBlocks
     /\ \E t \in OverlayTypes : AddBlock(t, showSlashMenu)
  \/ /\ showTypeMenu \in IdsOf(content)
     /\ \E t \in OverlayTypes : ChangeBlockType(showTypeMenu, t)
  \/ /\ Len(content) > 1
     /\ \E id \in IdsOf(content) : DeleteBlock(id)
  \/ \E i \in 1..Len(content), key \in Keys :
       /\ HasKeyHandler(content[i].type)
       /\ HandleSlashCommand(key, content[i].id)
  \/ \E i \in 1..Len(content), u \in OverlayUpdates :
       /\ HasKeyHandler(content[i].type)
       /\ UpdateBlock(content[i].id, u)
  \/ \E i \in 1..Len(content), selected \in BOOLEAN :
       /\ HasSelectionHandler(content[i].type)
       /\ HandleTextSelection(content[i].id, selected)
  \/ \E i \in 1..Len(content) :
       /\ content[i].type = "image"
       /\ OpenImageModal(content[i].id)
  \/ isImageModalOpen # Null /\ CloseImageModal
  \/ HandleClickOutside

SpecOverlay == Init /\ [][NextOverlay]_vars

---------------------------------------------------------------------------
(* Specification of the slash menu (NotionEditor) *)

NextSlash ==
  \/ \E i \in 1..Len(content), key \in Keys :
       /\ HasKeyHandler(content[i].type)
       /\ HandleSlashCommand(key, content[i].id)
  \/ \E i \in 1..Len(content), u \in OverlayUpdates :
       /\ HasKeyHandler(content[i].type)
       /\ UpdateBlock(content[i].id, u)
  \/ /\ showSlashMenu # Null
     /\ Len(content) < MaxGridBlocks
     /\ AddBlock("paragraph", showSlashMenu)
  \/ \E id \in IdsOf(content) : ToggleBlockMenu(id)
  \/ HandleClickOutside

SpecSlash == Init /\ [][NextSlash]_vars

---------------------------------------------------------------------------
(* Specification of text formatting (NotionEditor) *)

\* the blocks of the documents explored
MaxFormatBlocks == 2

\* the texts typed
FormatTexts == {"a"}

\* what prompt('Enter URL:', 'https://') || undefined gives
PromptResults == {None, Some("u")}

\* a handler reached through a control outside the edited text runs after
\* the text has lost the focus (draft = None)
NextFormat ==
  \/ \E i \in 1..Len(content), text \in FormatTexts :
       TypeText(content[i].id, text)
  \/ BlurEdited
  \/ \E i \in 1..Len(content), selected \in BOOLEAN :
       /\ HasSelectionHandler(content[i].type)
       /\ HandleTextSelection(content[i].id, selected)
  \/ \E format \in Formats, url \in PromptResults :
       ApplyFormatting(format, url)
  \/ InsertCode
  \/ HandleClickOutside
  \/ \E i \in 1..Len(content) :
       /\ HasControls(content[i])
       /\ ToggleBlockMenu(content[i].id)
  \/ /\ showBlockMenu # Null
     /\ draft = None
     /\ Len(content) < MaxFormatBlocks
     /\ AddBlock("paragraph", showBlockMenu)
  \/ \E i \in 1..Len(content) :
       /\ Len(content) > 1
       /\ draft = None
       /\ DeleteBlock(content[i].id)

SpecFormat == Init /\ [][NextFormat]_vars

---------------------------------------------------------------------------
(* Specification of the image modal and its file reads (NotionEditor) *)

\* the blocks of the documents explored
MaxImageBlocks == 3

\* an image block opens the modal on a click, on its image or its placeholder
OpensImageModal(block) == block.type = "image"

NextImage ==
  \/ Tick
  \/ \E i \in 1..Len(content) :
       /\ Len(content) < MaxImageBlocks
       /\ AddBlock("image", content[i].id)
  \/ \E i \in 1..Len(content) :
       /\ OpensImageModal(content[i])
       /\ OpenImageModal(content[i].id)
  \/ isImageModalOpen # Null /\ CloseImageModal
  \/ HandleImageUpload
  \/ \E blockId \in pendingReads : ImageReadResolves(blockId)
  \/ \E i \in 1..Len(content) :
       /\ Len(content) > 1
       /\ DeleteBlock(content[i].id)

SpecImage == Init /\ [][NextImage]_vars

---------------------------------------------------------------------------
(* Specification of the deferred focus callbacks (both editors) *)

TimerKeys == {"Enter", "/"}

NextTimers ==
  \/ Tick
  \/ \E i \in 1..Len(content) :
       /\ Len(content) < MaxFormatBlocks
       /\ AddBlock("paragraph", content[i].id)
  \/ \E i \in 1..Len(content) :
       /\ Len(content) > 1
       /\ DeleteBlock(content[i].id)
  \/ \E t \in timers : t.owner = "editor" /\ FocusTimerFires(t.id)
  \/ \E i \in 1..Len(blocks), key \in TimerKeys :
       /\ PageEditable(blocks[i])
       /\ PageHandleKeyDown(key, blocks[i].id)
  \/ slashOpen /\ PageAddBlock("text")
  \/ \E id \in IdsOf(blocks) : PageDeleteBlock(id)
  \/ \E t \in timers : t.owner = "page" /\ PageFocusTimerFires(t.id)

SpecTimers == Init /\ [][NextTimers]_vars

---------------------------------------------------------------------------
(* Specifications of the page editor (unnamed/part_000) *)

PageKeys == {"Enter", "Backspace", "/"}
PageTypes == {"text", "calendar"}
\* what onInput stores after a "/" was typed
PageTexts == {"/"}
\* events the calendar's dialog is explored saving, and its edits
NewEvents == {[title |-> "a", color |-> "blue", startTime |-> NineOClock]}
EventEdits == {[title |-> "b"], [color |-> "red"]}

\* block operations with a calendar's events in place; handlers are bound to
\* the blocks that are rendered, the menu's items to the open menu
NextCalendar ==
  \/ \E i \in 1..Len(blocks), key \in PageKeys :
       /\ PageEditable(blocks[i])
       /\ PageHandleKeyDown(key, blocks[i].id)
  \/ \E i \in 1..Len(blocks), text \in PageTexts :
       /\ PageEditable(blocks[i])
       /\ PageHandleContentChange(blocks[i].id, text)
  \/ slashOpen /\ \E type \in PageTypes : PageAddBlock(type)
  \/ \E id \in IdsOf(blocks) : PageDeleteBlock(id)
  \/ \E i \in 1..Len(blocks) :
       /\ blocks[i].type = "calendar"
       /\ HandleDateSelect(blocks[i].id, InitialBlockId)
  \/ HasCalendar /\ \E event \in NewEvents : HandleEventCreate(event)

SpecCalendar == Init /\ [][NextCalendar]_vars

\* the calendar's event handlers, called with any id
NextEvents ==
  \/ Tick
  \/ \E event \in NewEvents : HandleEventCreate(event)
  \/ \E id \in Ids, edit \in EventEdits : HandleEventUpdate(id, edit)
  \/ \E id \in Ids : HandleEventDelete(id)

SpecEvents == Init /\ [][NextEvents]_vars

\* the days and hours of the slots explored, the events the dialog saves in
\* them and the saves of an edit (every field but the id)
SlotDays == {1, 2}
SlotHours == {9, 10}
SlotEvents ==
  {[title |-> "a", color |-> "blue", startTime |-> DateTime(d, h)] :
     d \in SlotDays, h \in SlotHours}

\* events created, moved between slots and deleted
NextSlots ==
  \/ Tick
  \/ \E event \in SlotEvents : HandleEventCreate(event)
  \/ \E i \in 1..Len(events), edit \in SlotEvents :
       HandleEventUpdate(events[i].id, edit)
  \/ \E i \in 1..Len(events) : HandleEventDelete(events[i].id)

SpecSlots == Init /\ [][NextSlots]_vars

\* what the EventModal's form is explored submitting (every field but the id)
ModalEvents ==
  {[title |-> "a", color |-> "blue", startTime |-> NineOClock],
   [title |-> "b", color |-> "red", startTime |-> NineOClock]}

\* calendar blocks added from the slash menu, and the modals of their views
NextModal ==
  \/ Tick
  \/ \E i \in 1..Len(blocks) :
       /\ PageEditable(blocks[i])
       /\ PageFocus(blocks[i].id)
  \/ \E i \in 1..Len(blocks) :
       /\ PageEditable(blocks[i])
       /\ PageHandleKeyDown("/", blocks[i].id)
  \/ slashOpen /\ PageAddBlock("calendar")
  \/ \E view \in IdsOf(blocks) : HandleTimeSlotClick(view, 1, 9)
  \/ \E view \in IdsOf(blocks), i \in 1..Len(events) :
       HandleEventClick(view, events[i])
  \/ \E view \in IdsOf(blocks) : CreateEventClick(view)
  \/ \E view \in IdsOf(blocks), eventData \in ModalEvents :
       ModalSave(view, eventData)
  \/ \E view \in IdsOf(blocks) : ModalDelete(view)
  \/ \E view \in IdsOf(blocks) : ModalClose(view)

SpecModal == Init /\ [][NextModal]_vars

\* keys, focus and the slash menu of the page editor
NextPageKeys ==
  \/ Tick
  \/ \E i \in 1..Len(blocks), key \in PageKeys :
       /\ PageEditable(blocks[i])
       /\ PageHandleKeyDown(key, blocks[i].id)
  \/ \E i \in 1..Len(blocks), text \in PageTexts :
       /\ PageEditable(blocks[i])
       /\ PageHandleContentChange(blocks[i].id, text)
  \/ \E i \in 1..Len(blocks) :
       /\ PageEditable(blocks[i])
       /\ PageFocus(blocks[i].id)
  \/ slashOpen /\ \E type \in PageTypes : PageAddBlock(type)
  \/ slashOpen /\ PageCloseSlashMenu
  \/ \E id \in IdsOf(blocks) : PageDeleteBlock(id)

SpecPageKeys == Init /\ [][NextPageKeys]_vars

---------------------------------------------------------------------------
(* Claims on retypes and flips, specification SpecType *)

PreservingTypes == {"paragraph", "heading1", "heading2", "heading3", "quote",
                    "code", "list", "numbered-list", "todo", "callout"}
StructuredTypes == {"table", "chart-bar", "chart-pie", "calendar", "toggle"}

\* C14: changeType of a block between two content-preserving types leaves the
\* block's content unchanged and sets checked to false when the target is
\* todo and leaves it absent otherwise; collapsed, tableData and chartData
\* are absent.
C14_RetypePreservesContent ==
  [][(lastOp'.op = "changeBlockType" /\ lastOp'.arg \in PreservingTypes) =>
       /\ Len(content') = Len(content)
       /\ \A i \in 1..Len(content) :
            (content[i].id = lastOp'.id
             /\ content[i].type \in PreservingTypes) =>
              /\ content'[i].type = lastOp'.arg
              /\ content'[i].content = content[i].content
              /\ content'[i].checked =
                   IF lastOp'.arg = "todo" THEN Some(FALSE) ELSE None
              /\ content'[i].collapsed = None
              /\ content'[i].tableData = None
              /\ content'[i].chartData = None]_vars

\* C15: changeType of a block into a structured type (table, chart-bar,
\* chart-pie, calendar, toggle) leaves the block with empty content, whatever
\* its content was.
C15_RetypeToStructuredClearsContent ==
  [][(/\ lastOp'.op = "changeBlockType"
      /\ lastOp'.arg \in StructuredTypes
      /\ HasBlock(content, lastOp'.id)) =>
       \A i \in 1..Len(content') :
         content'[i].id = lastOp'.id => content'[i].content = ""]_vars

\* C19: changeType of a block into calendar leaves the block with a
\* selectedDate, the current time, as addBlock('calendar') does.
C19_RetypeToCalendarSetsDate ==
  [][(/\ lastOp'.op = "changeBlockType"
      /\ lastOp'.arg = "calendar"
      /\ HasBlock(content, lastOp'.id)) =>
       \A i \in 1..Len(content') :
         content'[i].id = lastOp'.id =>
           content'[i].selectedDate = NewBlock("calendar", now).selectedDate
     ]_vars

\* C20: toggleChecked(id) flips checked on a todo block and toggleCollapsed(id)
\* flips collapsed on a toggle block; on a block of another type, and with an
\* id no block has, either call changes nothing.
C20_FlipsOnlyWhereApplicable ==
  [][/\ lastOp'.op = "toggleTodo" =>
          /\ Len(content') = Len(content)
          /\ \A i \in 1..Len(content) :
               content'[i] =
                 IF content[i].id = lastOp'.id /\ content[i].type = "todo"
                 THEN [content[i] EXCEPT
                         !.checked = Some(content[i].checked # Some(TRUE))]
                 ELSE content[i]
     /\ lastOp'.op = "toggleCollapse" =>
          /\ Len(content') = Len(content)
          /\ \A i \in 1..Len(content) :
               content'[i] =
                 IF content[i].id = lastOp'.id /\ content[i].type = "toggle"
                 THEN [content[i] EXCEPT
                         !.collapsed = Some(content[i].collapsed # Some(TRUE))]
                 ELSE content[i]]_vars

---------------------------------------------------------------------------
(* Claims on the earlier changeBlockType, specification SpecSecond *)

\* C16: changeType of a block with content c into toggle leaves it with
\* toggleTitle = c, toggleContent empty, content empty and collapsed = false.
C16_RetypeToToggleSeedsTitle ==
  [][(lastOp'.op = "changeBlockType" /\ lastOp'.arg = "toggle") =>
       /\ Len(content') = Len(content)
       /\ \A i \in 1..Len(content) :
            content[i].id = lastOp'.id =>
              /\ content'[i].type = "toggle"
              /\ content'[i].toggleTitle = Some(content[i].content)
              /\ content'[i].toggleContent = Some("")
              /\ content'[i].content = ""
              /\ content'[i].collapsed = Some(FALSE)]_vars

---------------------------------------------------------------------------
(* Claims on keys and retypes of text blocks, specification SpecKeys *)

\* the optional fields a block of this type may carry
FieldsOfType(type) ==
  CASE type = "todo" -> {"checked"}
    [] type = "toggle" -> {"collapsed", "toggleTitle", "toggleContent"}
    [] type = "table" -> {"tableData"}
    [] type \in {"chart-bar", "chart-pie"} -> {"chartData"}
    [] type = "calendar" -> {"selectedDate"}
    [] OTHER -> {}

TypedFields == {"checked", "collapsed", "toggleTitle", "toggleContent",
                "tableData", "chartData", "selectedDate"}

\* C17: after every mutation every block carries only the optional fields of
\* its current type: checked only on todo; collapsed, toggleTitle and
\* toggleContent only on toggle; tableData only on table; chartData only on
\* chart-bar and chart-pie; selectedDate only on calendar.
C17_OnlyFieldsOfCurrentType ==
  \A i \in 1..Len(content) :
    \A f \in TypedFields \ FieldsOfType(content[i].type) :
      content[i][f] = None

---------------------------------------------------------------------------
(* Claims on the overlays, specification SpecOverlay *)

\* C21: at most one overlay (block menu, type menu, slash menu, format menu,
\* image modal) is open in any reachable state.
C21_AtMostOneOverlay == Cardinality(OpenOverlays) <= 1

\* C22: a pointer-down outside all overlay regions, in a state where some
\* overlay is open, leads to a state in which no overlay is open.
C22_OutsidePointerDownClosesAll ==
  [][(lastOp'.op = "pointerDownOutside" /\ OpenOverlays # {}) =>
       OpenOverlays' = {}]_vars

\* addBlock has run in this step: called from a menu, or by Enter
AddBlockRan ==
  \/ lastOp'.op = "addBlock"
  \/ lastOp'.op = "keyDown" /\ Len(content') = Len(content) + 1

\* C23: after addBlock returns no menu is open, whichever of the block menu,
\* type menu, slash menu and format menu was open before the call.
C23_AddBlockClosesMenus ==
  [][AddBlockRan =>
       /\ showBlockMenu' = Null
       /\ showSlashMenu' = Null
       /\ showTypeMenu' = Null
       /\ showFormatMenu' = FALSE]_vars

---------------------------------------------------------------------------
(* Claims on the host's change callback, specification SpecNotify *)

C25_SeedRoundTrip ==
  (onChange /\ lastOp.op \in {"init", "seed"} /\ initialContent # None) =>
    reported = initialContent

\* a document holding blocks was re-seeded with a two-block sequence
C25_Witness ==
  /\ onChange
  /\ lastOp.op = "seed"
  /\ initialContent # None
  /\ Len(initialContent[1]) = 2
  /\ reported = initialContent

---------------------------------------------------------------------------
(* Claims on the calendar's events, specifications SpecCalendar, SpecEvents *)

PageBlockOps == {"page:keyDown", "page:contentChange", "page:addBlock",
                 "page:deleteBlock", "page:dateSelect", "page:focus"}

\* C26: no block operation (addBlock, deleteBlock, Backspace-delete, content
\* change, selectDate) changes the calendar event collection, and every
\* calendar block is given the one event collection.
C26_EventsIndependentOfBlocks ==
  /\ [][lastOp'.op \in PageBlockOps => events' = events]_vars
  /\ [](\A i \in 1..Len(blocks) :
          blocks[i].type = "calendar" => EventsGivenTo(blocks[i]) = events)

\* the calendar blocks were deleted and the event they created is still there
C26_Witness ==
  /\ lastOp.op = "page:deleteBlock"
  /\ ~HasCalendar
  /\ Len(events) >= 1

\* the sequence s without its element at position k (1-based)
WithoutPosition(s, k) == SubSeq(s, 1, k - 1) \o SubSeq(s, k + 1, Len(s))

\* C27: createEvent adds exactly one event carrying the given fields;
\* updateEvent(id, partial) merges the fields into the event with that id and
\* keeps its id and position; deleteEvent(id) removes only that event; all
\* other events and their order are unchanged, and update and delete with an
\* unknown id change nothing.
C27_EventOpsTouchOneEvent ==
  [][/\ lastOp'.op = "page:eventCreate" =>
          /\ Len(events') = Len(events) + 1
          /\ SubSeq(events', 1, Len(events)) = events
          /\ events'[Len(events')].title = lastOp'.arg.title
          /\ events'[Len(events')].color = lastOp'.arg.color
     /\ lastOp'.op = "page:eventUpdate" =>
          /\ Len(events') = Len(events)
          /\ Cardinality({i \in 1..Len(events) : events'[i] # events[i]}) <= 1
          /\ \A i \in 1..Len(events) :
               /\ events'[i].id = events[i].id
               /\ \A f \in {"title", "color"} :
                    events'[i][f] =
                      IF events[i].id = lastOp'.id /\ f \in DOMAIN lastOp'.arg
                      THEN lastOp'.arg[f] ELSE events[i][f]
     /\ lastOp'.op = "page:eventDelete" =>
          IF \E k \in 1..Len(events) : events[k].id = lastOp'.id
          THEN \E k \in 1..Len(events) :
                 /\ events[k].id = lastOp'.id
                 /\ events' = WithoutPosition(events, k)
          ELSE events' = events]_vars

---------------------------------------------------------------------------
(* Claims on the slash menu, specifications SpecPageKeys, SpecOverlay, *)
(* SpecSlash *)

\* C28: a "/" keystroke on a block opens the slash menu if and only if the
\* block's stored content is empty or equals "/" (page editor: the menu is
\* open afterwards in the first case and as it was in the second).
C28_SlashOpensOnEmptyOrSlash ==
  [][(lastOp'.op = "page:keyDown" /\ lastOp'.arg = "/") =>
       \A i \in 1..Len(blocks) :
         blocks[i].id = lastOp'.id =>
           IF blocks[i].content \in {"", "/"}
           THEN slashOpen' = TRUE
           ELSE slashOpen' = slashOpen]_vars

\* C29: with the slash menu open, selecting a block type inserts exactly one
\* new block of that type immediately after the block where the menu was
\* triggered and leaves the slash menu closed, whatever happened while the
\* menu was open.
C29_SlashSelectionInsertsAfter ==
  [][(/\ lastOp'.op = "addBlock"
      /\ showSlashMenu # Null
      /\ lastOp'.id = showSlashMenu) =>
       /\ showSlashMenu' = Null
       /\ Len(content') = Len(content) + 1
       /\ \E k \in 1..Len(content) :
            /\ content[k].id = showSlashMenu
            /\ content'[k + 1].type = lastOp'.arg
            /\ WithoutPosition(content', k + 1) = content]_vars

C31_FormattingWritesBackAndCloses ==
  [][lastOp'.op = "applyFormatting" =>
       /\ showFormatMenu' = FALSE
       /\ \A i \in 1..Len(content') :
            (content'[i].id = selectedBlockId /\ HasEditable(content'[i])) =>
              content'[i].content =
                InnerHTML(content', draft', selectedBlockId)]_vars

\* C32: the link command without a URL (prompt cancelled or empty) is
\* abandoned: the text-edit surface is not changed and the block sequence is
\* not changed (updateBlock stores nothing).
C32_LinkWithoutUrlIsAbandoned ==
  [][(/\ lastOp'.op = "applyFormatting"
      /\ lastOp'.arg.format = "link"
      /\ lastOp'.arg.url = None) =>
       /\ content' = content
       /\ draft' = draft]_vars

\* C33: addBlock defers one focus callback for the id of the new block; when
\* the callback fires after the block was deleted, or after another block was
\* created, it changes no editor state: no block, no overlay and no
\* active-block value changes.
C33_StaleFocusCallbackChangesNothing ==
  [][/\ lastOp'.op = "addBlock" =>
          timers' = timers \cup {FocusTimer("editor", BlockId(now))}
     /\ (/\ lastOp'.op = "focusTimer"
         /\ \/ ~HasBlock(content, lastOp'.id)
            \/ \E i \in 1..Len(content) : content[i].id > lastOp'.id) =>
          UNCHANGED <<content, menuVars, overlayVars, selectedBlockId, draft>>
     /\ (/\ lastOp'.op = "page:focusTimer"
         /\ \/ ~HasBlock(blocks, lastOp'.id)
            \/ \E i \in 1..Len(blocks) : blocks[i].id > lastOp'.id) =>
          UNCHANGED <<blocks, activeBlockId, slashOpen, events>>]_vars

\* C34: when an image file read resolves, the payload is stored in block b
\* and the modal closes if the modal is still open for b; if the modal for b
\* was dismissed meanwhile, the resolution writes nothing and leaves the modal
\* state as it is (a modal opened for another block stays open).
C34_ReadAfterDismissIsNoOp ==
  [][lastOp'.op = "imageReadResolves" =>
       IF isImageModalOpen = lastOp'.id
       THEN /\ isImageModalOpen' = Null
            /\ \A i \in 1..Len(content') :
                 content'[i].id = lastOp'.id =>
                   content'[i].content = ImagePayload
       ELSE /\ content' = content
            /\ isImageModalOpen' = isImageModalOpen]_vars

\* the events of a listing are in the order of their creation: the id is the
\* clock reading at creation and no save changes it
InCreationOrder(listed) ==
  \A i, j \in 1..Len(listed) : i < j => listed[i].id <= listed[j].id

\* C35: whatever events were created, updated (moved to another slot
\* included) and deleted, the events listed for a time slot appear in the
\* order of their creation, earliest first.
C35_SlotListsInCreationOrder ==
  \A d \in SlotDays, h \in SlotHours :
    InCreationOrder(GetEventsForTimeSlot(events, d, h))

\* two events created at different times share a slot after one of them was
\* moved into it
C35_Witness ==
  /\ lastOp.op = "page:eventUpdate"
  /\ \E d \in SlotDays, h \in SlotHours :
       LET listed == GetEventsForTimeSlot(events, d, h)
       IN /\ Len(listed) = 2
          /\ listed[1].id < listed[2].id
          /\ lastOp.arg.startTime = DateTime(d, h)

\* C36: the id an open block menu, type menu, slash menu or image modal is
\* scoped to, and the id the format menu remembers, is the id of a block in
\* the document, in every reachable state.
C36_OverlayIdsAreInDocument ==
  \A id \in {showBlockMenu, showTypeMenu, showSlashMenu, isImageModalOpen,
              selectedBlockId} :
    id # Null => HasBlock(content, id)

\* C37: in the page editor activeBlockId is the id of a block of the
\* document in every reachable state, after addBlock, Enter, Backspace on an
\* empty block at any index and deleteBlock.
C37_ActiveBlockIsInDocument == HasBlock(blocks, activeBlockId)

\* C38: changeType is idempotent: after changeType(id, t), a second
\* changeType(id, t) leaves every block as the first one left it (a toggle
\* keeps its toggleTitle).
C38_ChangeTypeIsIdempotent ==
  [][(lastOp'.op = "changeBlockType" /\ HasBlock(content, lastOp'.id)) =>
       UpdateBlockContent(
         content', lastOp'.id,
         ChangeTypeUpdates(Find(content', lastOp'.id), lastOp'.arg))
       = content']_vars

\* the host's value, the prop and the editor's content agree and no effect
\* has yet to run
Quiescent ==
  /\ ~seedPending
  /\ reported = Some(content)
  /\ initialContent = reported

OnePurpose(view) ==
  (HasCalendarView(view) /\ modals[view].showEventModal) =>
    (modals[view].editingEvent = None) # (modals[view].selectedSlot = None)

\* the positions of the events a step changed
ChangedEvents(before, after) ==
  {i \in 1..Len(before) : i > Len(after) \/ after[i] # before[i]}

\* C40: while the event modal of a CalendarView is open exactly one of
\* editingEvent and selectedSlot is set; a save closes the modal and makes
\* one bridge call: opened on an event, an update that changes no event but
\* the one it was opened on, which is still in the collection (also with
\* several calendar blocks sharing it) and creates none; opened from a slot
\* or the create button, a create that appends one event and changes none.
C40_ModalSavesWhatItOpenedOn ==
  /\ [](\A view \in Ids : OnePurpose(view))
  /\ [][lastOp'.op = "calendar:save" =>
          LET modal == modals[lastOp'.id]
          IN /\ ~modals'[lastOp'.id].showEventModal
             /\ IF modal.editingEvent # None
                THEN /\ Len(events') = Len(events)
                     /\ \E i \in 1..Len(events) :
                          events[i].id = modal.editingEvent[1].id
                     /\ Cardinality(ChangedEvents(events, events')) <= 1
                     /\ \A i \in ChangedEvents(events, events') :
                          events[i].id = modal.editingEvent[1].id
                ELSE /\ Len(events') = Len(events) + 1
                     /\ ChangedEvents(events, events') = {}]_vars

====
